---- MODULE Spec2Model ----
(***************************************************************************)
(* Modern Sampler Format (MSF): the geometry algorithms of msf-core, the   *)
(* compiler (compile, buildNoteLookup, extract*FromMSF) and the playback   *)
(* runtime (MSFRuntime), modelled as state machines.                        *)
(*                                                                         *)
(* Numbers that are IEEE doubles in the source are kept as the integers    *)
(* they are computed from: a playback rate 2^(semitones/12) is kept as its *)
(* semitone offset, a resample ratio as a pair numerator/denominator.      *)
(***************************************************************************)
EXTENDS Integers, Sequences, FiniteSets, TLC

VARIABLES
  phase,       \* position of the driver of the scenario being run
  roots,       \* computeKeyRanges: argument roots (a sequence of MIDI notes)
  lo,          \* computeKeyRanges: argument lo
  hi,          \* computeKeyRanges: argument hi
  keyRanges,   \* computeKeyRanges: the returned array
  intent,      \* compile: the InstrumentIntent
  inventory,   \* compile: the Inventory (sample id -> entry)
  seedOpt,     \* compile: options.seed (Undefined when not given)
  clock,       \* the wall clock read by Date.now() / new Date()
  bundle,      \* the MSFInstrument returned by compile
  bundle2,     \* the MSFInstrument returned by a second, identical compile
  bundleR,     \* the MSFInstrument recompiled from what was extracted from bundle
  lastNoteOn,  \* what the last noteOn resolved to
  script,      \* runtime scenario: the calls the caller has decided on
  done,        \* per runtime instance: how many calls of the script it has made
  voices,      \* per runtime instance: this.voices, in insertion order
  audioCache,  \* per runtime instance: the paths in this.audioCache
  hist,        \* per runtime instance: its state and result after each call
  loaded,      \* the MSFInstrument parsed from a bundle file
  validation,  \* the ValidationResult validateMSF returned for it
  instance,    \* the MSFRuntime a "new MSFRuntime(...)" expression produced
  thrown,      \* the message of the Error the last call threw ("" for none)
  pending,     \* the noteOn calls suspended at "await this.loadAudio(sample)"
  decodes,     \* how often decodeWAV has read each path
  outcomes,    \* how each noteOn call that has settled ended
  epoch,       \* how many reset() calls have returned
  wavFile,     \* decodeWAV: the chunks of the file at path, in file order
  decoded,     \* decodeWAV: what the call produced
  iis,         \* validateIntent: the InstrumentIntent handed to it
  options,     \* validateIntent: its ValidationOptions
  intentResult, \* validateIntent: the ValidationResult it returned
  argv,        \* msf CLI: process.argv.slice(2)
  files,       \* msf CLI: the content of the files, by path
  exit,        \* msf CLI: how the process ended
  db,          \* refinement server: the rows of instrument_versions
  nextId,      \* refinement server: the next AUTOINCREMENT id
  inflight,    \* refinement server: recompile requests awaiting compile
  response     \* refinement server: the last response sent

krVars == <<roots, lo, hi, keyRanges>>

compileVars == <<intent, inventory, seedOpt, clock, bundle, bundle2, bundleR, lastNoteOn>>

rtVars == <<script, done, voices, audioCache, hist>>

loadVars == <<loaded, validation, instance, thrown>>

asyncVars == <<pending, decodes, outcomes, epoch>>

wavVars == <<wavFile, decoded>>

intentVars == <<iis, options, intentResult>>

cliVars == <<argv, files, exit>>

serverVars == <<db, nextId, inflight, response>>

vars == <<phase, roots, lo, hi, keyRanges, intent, inventory, seedOpt, clock,
          bundle, bundle2, bundleR, lastNoteOn, script, done, voices, audioCache, hist,
          loaded, validation, instance, thrown, pending, decodes, outcomes, epoch,
          wavFile, decoded, iis, options, intentResult,
          argv, files, exit, db, nextId, inflight, response>>

----------------------------------------------------------------------------
(* Bounds of the model *)

\* longest list of root notes handed to computeKeyRanges
MaxRoots == 3

\* root notes the inputs are drawn from: below, at, inside, at and above the
\* piano range 21..108
RootPool == {5, 10, 21, 60, 72, 108, 120}

\* bounds lo/hi the inputs are drawn from
BoundPool == {0, 21, 60, 108, 127}

----------------------------------------------------------------------------
(* Generic helpers *)

\* JavaScript's undefined, for the optional numbers and objects
Undefined == 0 - 1

Min(a, b) == IF a < b THEN a ELSE b

Max(a, b) == IF a > b THEN a ELSE b

Range(s) == {s[i] : i \in 1..Len(s)}

\* sequences over S of length 0..n without repeated elements
DistinctSeqs(S, n) ==
  {s \in UNION {[1..k -> S] : k \in 0..n} :
     \A i, j \in 1..Len(s) : i # j => s[i] # s[j]}

\* Array.prototype.sort((a, b) => a - b) on numbers: insertion of x into the
\* sorted sequence s behind every element that is not greater (stable)
RECURSIVE InsertNum(_, _)
InsertNum(s, x) ==
  IF s = <<>> THEN <<x>>
  ELSE IF x < Head(s) THEN <<x>> \o s
  ELSE <<Head(s)>> \o InsertNum(Tail(s), x)

RECURSIVE SortNum(_)
SortNum(s) ==
  IF s = <<>> THEN <<>>
  ELSE InsertNum(SortNum(SubSeq(s, 1, Len(s) - 1)), s[Len(s)])

----------------------------------------------------------------------------
(* msf-core: geometry *)

\* clampMidi(n) = Math.max(0, Math.min(127, n))
clampMidi(n) == Max(0, Min(127, n))

\* computeKeyRanges(roots, lo, hi): one {root, loKey, hiKey} per sorted root;
\* Math.floor((a + b) / 2) on non-negative integers is (a + b) \div 2
computeKeyRanges(rts, l, h) ==
  LET sorted == SortNum(rts)
      n == Len(sorted)
  IN [i \in 1..n |->
        LET root == sorted[i]
            loKey == IF i = 1 THEN l ELSE ((sorted[i - 1] + root) \div 2) + 1
            hiKey == IF i = n THEN h ELSE (root + sorted[i + 1]) \div 2
        IN [root |-> root, loKey |-> clampMidi(loKey), hiKey |-> clampMidi(hiKey)]]

\* the notes a {loKey, hiKey} range covers
NotesOf(r) == {n \in 0..127 : r.loKey <= n /\ n <= r.hiKey}

----------------------------------------------------------------------------
(* The inventory and the intents the compiler is run on *)

\* an inventory entry: Sample { id, path, metadata: { note?, velocity?,
\* roundRobin? } }
Entry(id, note, velocity, roundRobin) ==
  [id |-> id, path |-> <<id, ".wav">>, note |-> note, velocity |-> velocity,
   roundRobin |-> roundRobin]

\* the catalogue: two velocity layers of C4 (the louder one without note and
\* velocity metadata, so that the defaults 60 and 100 apply), a round-robin
\* variant of the louder layer, C5, and two samples above the piano range
Catalogue ==
  ( "c4p"  :> Entry("c4p", 60, 40, Undefined) ) @@
  ( "c4f"  :> Entry("c4f", Undefined, Undefined, Undefined) ) @@
  ( "c4rr" :> Entry("c4rr", 60, 100, 1) ) @@
  ( "c5"   :> Entry("c5", 72, Undefined, Undefined) ) @@
  ( "hiA"  :> Entry("hiA", 115, 100, Undefined) ) @@
  ( "hiB"  :> Entry("hiB", 121, 100, Undefined) )

\* the sample ids an articulation may reference; "ghost" is in no inventory
SampleIds == DOMAIN Catalogue \cup {"ghost"}

\* the articulation ids, in the order the intent lists them
ArtIds == <<"sustain", "staccato">>

\* most sample references in one intent, over all its articulations
MaxSampleRefs == 2

RECURSIVE SumLen(_)
SumLen(ss) == IF ss = <<>> THEN 0 ELSE Len(Head(ss)) + SumLen(Tail(ss))

\* intents of 1..Len(ArtIds) articulations with distinct ids, each listing
\* distinct sample ids (two articulations may list the same sample)
Intents ==
  LET Lists == DistinctSeqs(SampleIds, MaxSampleRefs)
      Shapes == {ss \in UNION {[1..k -> Lists] : k \in 1..Len(ArtIds)} :
                   SumLen(ss) <= MaxSampleRefs}
  IN {[name |-> "piano",
       articulations |-> [i \in 1..Len(ss) |-> [id |-> ArtIds[i], samples |-> ss[i]]],
       strategy |-> "chromatic"] : ss \in Shapes}

----------------------------------------------------------------------------
(* The compiler: compile *)

\* instrumentLoKey, instrumentHiKey
instrumentLoKey == 21

instrumentHiKey == 108

\* inventory.getSample(id) !== undefined
hasSample(inv, id) == id \in DOMAIN inv

\* inventory.getSample(id), where it is defined
getSample(inv, id) == inv[id]

\* the undefined roundRobin of a sample set
NoRoundRobin == [strategy |-> "undefined", seed |-> Undefined, count |-> 0]

\* the null of lookupRegion
NoLayer == [velocityMin |-> Undefined, regionIndex |-> Undefined, samplePath |-> ""]

\* x ?? d
OrElse(x, d) == IF x = Undefined THEN d ELSE x

\* articulation.samples.map(getSample).filter(s => s !== undefined)
RECURSIVE ResolveSamples(_, _)
ResolveSamples(inv, ids) ==
  IF ids = <<>> THEN <<>>
  ELSE (IF hasSample(inv, Head(ids)) THEN <<getSample(inv, Head(ids))>> ELSE <<>>)
         \o ResolveSamples(inv, Tail(ids))

\* s.metadata.note ?? 60 and s.metadata.velocity ?? 100
NoteOfSample(s) == OrElse(s.note, 60)

VelocityOfSample(s) == OrElse(s.velocity, 100)

\* arr.filter((x, index, arr) => arr.indexOf(x) === index)
RECURSIVE Unique(_)
Unique(s) ==
  IF s = <<>> THEN <<>>
  ELSE LET front == Unique(SubSeq(s, 1, Len(s) - 1))
           x == s[Len(s)]
       IN IF x \in Range(front) THEN front ELSE Append(front, x)

\* rootNotes of an articulation's resolved samples
RootNotes(samples) == Unique([i \in 1..Len(samples) |-> NoteOfSample(samples[i])])

\* samplesByNote.get(note): the resolved samples with that note, in order;
\* velocities: their velocities, sorted ascending
VelocitiesAt(samples, note) ==
  LET at == SelectSeq(samples, LAMBDA s : NoteOfSample(s) = note)
  IN SortNum([i \in 1..Len(at) |-> VelocityOfSample(at[i])])

\* the range the loop computes for index i of the sorted velocities
VelocityRangeAt(velocities, i) ==
  [loVel |-> IF i = 1 THEN 1
             ELSE ((velocities[i - 1] + velocities[i]) \div 2) + 1,
   hiVel |-> IF i = Len(velocities) THEN 127
             ELSE (velocities[i] + velocities[i + 1]) \div 2]

\* index whose range velocityRanges keeps under the key `${note}_${vel}`: the
\* loop stores with Map.set, so the last index with that velocity wins
StoredIndex(velocities, vel) ==
  CHOOSE i \in 1..Len(velocities) :
    /\ velocities[i] = vel
    /\ \A j \in 1..Len(velocities) : velocities[j] = vel => j <= i

\* velocityRanges.get(`${note}_${vel}`) || { loVel: 1, hiVel: 127 }
VelocityRangeOf(samples, note, vel) ==
  LET velocities == VelocitiesAt(samples, note)
  IN IF vel \in Range(velocities)
     THEN VelocityRangeAt(velocities, StoredIndex(velocities, vel))
     ELSE [loVel |-> 1, hiVel |-> 127]

\* keyRanges.find(r => r.root === sampleNote) ?? keyRanges[0]
FinalRange(ranges, sampleNote) ==
  IF \E i \in 1..Len(ranges) : ranges[i].root = sampleNote
  THEN ranges[CHOOSE i \in 1..Len(ranges) :
                /\ ranges[i].root = sampleNote
                /\ \A j \in 1..(i - 1) : ranges[j].root # sampleNote]
  ELSE ranges[1]

\* calculateTransposition at both ends of the range, isExcessiveTransposition(_, 7)
Abs(x) == IF x < 0 THEN 0 - x ELSE x

isExcessiveTransposition(range) ==
  Max(Abs(range.loKey - range.root), Abs(range.hiKey - range.root)) > 7

\* notePlayback: one NotePlaybackData per note of loKey..hiKey; the playback
\* rate 2^((note - root + cents/100)/12) is kept as its semitone offset
NotePlayback(range) ==
  [n \in NotesOf(range) |-> [semitones |-> n - range.root]]

\* the MsfRegion compile makes for one resolved sample
RegionOf(art, samples, ranges, s) ==
  LET range == FinalRange(ranges, NoteOfSample(s))
      vel == VelocityRangeOf(samples, NoteOfSample(s), VelocityOfSample(s))
  IN [id |-> <<"region_", s.id>>,
      sampleId |-> s.id,
      loKey |-> range.loKey,
      hiKey |-> range.hiKey,
      pitchKeyCenter |-> range.root,
      loVel |-> vel.loVel,
      hiVel |-> vel.hiVel,
      articulationId |-> art.id,
      sampleSetId |-> <<"sampleset_", art.id>>,
      notePlayback |-> NotePlayback(range)]

\* the Sample compile stores in the sample set for one resolved sample
SetSampleOf(art, ranges, s) ==
  LET range == FinalRange(ranges, NoteOfSample(s))
  IN [id |-> s.id, path |-> s.path, note |-> s.note, velocity |-> s.velocity,
      articulation |-> art.id, lokey |-> range.loKey, hikey |-> range.hiKey,
      pitch_keycenter |-> range.root]

\* mutant of SeedOf: the explicit seed is ignored, Date.now() always used
SeedOfClock(seed, now) == now

\* options.seed ?? Date.now()
SeedOf(seed, now) == IF seed = Undefined THEN now ELSE seed

\* what one iteration of the articulation loop adds: regions, the sample set
\* (none when nothing resolves) and warnings
CompileArticulation(art, inv, seed, now) ==
  LET samples == ResolveSamples(inv, art.samples)
      ranges == computeKeyRanges(RootNotes(samples), instrumentLoKey, instrumentHiKey)
      rr == SelectSeq(samples, LAMBDA s : s.roundRobin # Undefined)
  IN IF samples = <<>>
     THEN [regions |-> <<>>, sampleSets |-> <<>>,
           warnings |-> << <<"noValidSamples", art.id>> >>]
     ELSE [regions |-> [i \in 1..Len(samples) |-> RegionOf(art, samples, ranges, samples[i])],
           sampleSets |->
             << [id |-> <<"sampleset_", art.id>>,
                 samples |-> [i \in 1..Len(samples) |-> SetSampleOf(art, ranges, samples[i])],
                 roundRobin |-> IF rr # <<>>
                                THEN [strategy |-> "random", seed |-> SeedOf(seed, now),
                                      count |-> Len(rr)]
                                ELSE NoRoundRobin] >>,
           warnings |->
             LET w == [i \in 1..Len(samples) |->
                         IF isExcessiveTransposition(FinalRange(ranges, NoteOfSample(samples[i])))
                         THEN << <<"excessiveTransposition", samples[i].id>> >>
                         ELSE <<>>]
                 Cat[k \in 0..Len(samples)] == IF k = 0 THEN <<>> ELSE Cat[k - 1] \o w[k]
             IN Cat[Len(samples)]]

\* the articulation loop: the results of the iterations, concatenated
RECURSIVE CompileArticulations(_, _, _, _)
CompileArticulations(arts, inv, seed, now) ==
  IF arts = <<>> THEN [regions |-> <<>>, sampleSets |-> <<>>, warnings |-> <<>>]
  ELSE LET front == CompileArticulations(SubSeq(arts, 1, Len(arts) - 1), inv, seed, now)
           last == CompileArticulation(arts[Len(arts)], inv, seed, now)
       IN [regions |-> front.regions \o last.regions,
           sampleSets |-> front.sampleSets \o last.sampleSets,
           warnings |-> front.warnings \o last.warnings]

\* layers.sort((a, b) => a.velocityMin - b.velocityMin): stable
RECURSIVE InsertLayer(_, _)
InsertLayer(s, x) ==
  IF s = <<>> THEN <<x>>
  ELSE IF x.velocityMin < Head(s).velocityMin THEN <<x>> \o s
  ELSE <<Head(s)>> \o InsertLayer(Tail(s), x)

RECURSIVE SortLayers(_)
SortLayers(s) ==
  IF s = <<>> THEN <<>>
  ELSE InsertLayer(SortLayers(SubSeq(s, 1, Len(s) - 1)), s[Len(s)])

\* samplePaths.get(sampleId) || "": the path of the last sample with that id
SamplePath(sampleSets, sampleId) ==
  LET all == [i \in 1..Len(sampleSets) |-> sampleSets[i].samples]
      Cat[k \in 0..Len(all)] == IF k = 0 THEN <<>> ELSE Cat[k - 1] \o all[k]
      hits == SelectSeq(Cat[Len(all)], LAMBDA s : s.id = sampleId)
  IN IF hits = <<>> THEN "" ELSE hits[Len(hits)].path

\* mutant of LayersPushed: the note loop stops before hiKey (note < hiKey)
LayersPushedBelowHiKey(regions, sampleSets, note) ==
  LET idx == SelectSeq([i \in 1..Len(regions) |-> i],
                       LAMBDA i : regions[i].loKey <= note /\ note < regions[i].hiKey)
  IN [k \in 1..Len(idx) |->
        [velocityMin |-> OrElse(regions[idx[k]].loVel, 1),
         regionIndex |-> idx[k] - 1,
         samplePath |-> SamplePath(sampleSets, regions[idx[k]].sampleId)]]

\* the entries pushed for one note, in region order, before sorting;
\* regionIndex counts from 0 as in the source
LayersPushed(regions, sampleSets, note) ==
  LET idx == SelectSeq([i \in 1..Len(regions) |-> i],
                       LAMBDA i : regions[i].loKey <= note /\ note <= regions[i].hiKey)
  IN [k \in 1..Len(idx) |->
        [velocityMin |-> OrElse(regions[idx[k]].loVel, 1),
         regionIndex |-> idx[k] - 1,
         samplePath |-> SamplePath(sampleSets, regions[idx[k]].sampleId)]]

\* mutant of buildNoteLookup: the layers are left in the order pushed
buildNoteLookupUnsorted(regions, sampleSets) ==
  [table |-> [note \in 0..127 |-> LayersPushed(regions, sampleSets, note)]]

\* buildNoteLookup(regions, sampleSets)
buildNoteLookup(regions, sampleSets) ==
  [table |-> [note \in 0..127 |-> SortLayers(LayersPushed(regions, sampleSets, note))]]

\* mapping.keyZones for the "chromatic" strategy: one 0..127 zone per
\* articulation for which sampleSetMap holds a sample set
KeyZones(int, sampleSets) ==
  LET has == SelectSeq(int.articulations,
               LAMBDA a : \E i \in 1..Len(sampleSets) :
                            sampleSets[i].id = <<"sampleset_", a.id>>)
  IN [i \in 1..Len(has) |->
        [range |-> <<0, 127>>, sampleSetId |-> <<"sampleset_", has[i].id>>,
         articulationId |-> has[i].id]]

\* compile(intent, inventory, { seed }) when the wall clock shows now
compile(int, inv, seed, now) ==
  LET c == CompileArticulations(int.articulations, inv, seed, now)
  IN [identity |-> [id |-> <<"instrument_", int.name, SeedOf(seed, now)>>, name |-> int.name],
      articulations |-> [i \in 1..Len(int.articulations) |-> [id |-> int.articulations[i].id]],
      sampleSets |-> c.sampleSets,
      regions |-> c.regions,
      noteLookup |-> buildNoteLookup(c.regions, c.sampleSets),
      keyZones |-> KeyZones(int, c.sampleSets),
      compiledAt |-> now,
      warnings |-> c.warnings]

\* mutant of extractInventoryFromMSF: metadata.note is not copied
extractInventoryWithoutNote(msf) ==
  LET all == [i \in 1..Len(msf.sampleSets) |-> msf.sampleSets[i].samples]
      Cat[k \in 0..Len(all)] == IF k = 0 THEN <<>> ELSE Cat[k - 1] \o all[k]
      flat == Cat[Len(all)]
      ids == {flat[i].id : i \in 1..Len(flat)}
      LastOf(id) == flat[CHOOSE i \in 1..Len(flat) :
                           /\ flat[i].id = id
                           /\ \A j \in 1..Len(flat) : flat[j].id = id => j <= i]
  IN [id \in ids |->
        [id |-> id, path |-> LastOf(id).path, note |-> Undefined,
         velocity |-> LastOf(id).velocity, roundRobin |-> Undefined]]

\* extractInventoryFromMSF(msf): entries.set(sample.id, ...) over all sample
\* sets, a later sample with the same id replacing an earlier one; the
\* extracted metadata has note, velocity and articulation, and no roundRobin
extractInventoryFromMSF(msf) ==
  LET all == [i \in 1..Len(msf.sampleSets) |-> msf.sampleSets[i].samples]
      Cat[k \in 0..Len(all)] == IF k = 0 THEN <<>> ELSE Cat[k - 1] \o all[k]
      flat == Cat[Len(all)]
      ids == {flat[i].id : i \in 1..Len(flat)}
      LastOf(id) == flat[CHOOSE i \in 1..Len(flat) :
                           /\ flat[i].id = id
                           /\ \A j \in 1..Len(flat) : flat[j].id = id => j <= i]
  IN [id \in ids |->
        [id |-> id, path |-> LastOf(id).path, note |-> LastOf(id).note,
         velocity |-> LastOf(id).velocity, roundRobin |-> Undefined]]

\* extractIntentFromMSF(msf): every articulation of the bundle, with the ids
\* of all samples of the sample sets that hold a sample of that articulation
extractIntentFromMSF(msf) ==
  LET SamplesFor(artId) ==
        LET sets == SelectSeq(msf.sampleSets,
                      LAMBDA set : \E i \in 1..Len(set.samples) :
                                     set.samples[i].articulation = artId)
            per == [i \in 1..Len(sets) |->
                      [k \in 1..Len(sets[i].samples) |-> sets[i].samples[k].id]]
            Cat[k \in 0..Len(per)] == IF k = 0 THEN <<>> ELSE Cat[k - 1] \o per[k]
        IN Cat[Len(per)]
  IN [name |-> msf.identity.name,
      articulations |-> [i \in 1..Len(msf.articulations) |->
                           [id |-> msf.articulations[i].id,
                            samples |-> SamplesFor(msf.articulations[i].id)]],
      strategy |-> "chromatic"]

----------------------------------------------------------------------------
(* The runtime: region selection of noteOn *)

\* the scan of lookupRegion over the layers of one note: match starts as
\* layers[0] and moves forward while velocity >= layer.velocityMin
RECURSIVE ScanLayers(_, _, _)
ScanLayers(layers, velocity, match) ==
  IF layers = <<>> THEN match
  ELSE IF velocity >= Head(layers).velocityMin
       THEN ScanLayers(Tail(layers), velocity, Head(layers))
       ELSE match

\* lookupRegion(note, velocity) on a bundle with a noteLookup: the matching
\* layer, NoLayer for the source's null
lookupLayer(msf, note, velocity) ==
  IF note \notin DOMAIN msf.noteLookup.table THEN NoLayer
  ELSE LET layers == msf.noteLookup.table[note]
       IN IF layers = <<>> THEN NoLayer
          ELSE ScanLayers(layers, velocity, layers[1])

\* this.sampleIndex.get(sampleId) is defined
InSampleIndex(msf, sampleId) ==
  \E i \in 1..Len(msf.sampleSets) :
    \E k \in 1..Len(msf.sampleSets[i].samples) : msf.sampleSets[i].samples[k].id = sampleId

\* what noteOn(note, velocity) resolves before it loads audio: the layer, the
\* region index and the region's notePlayback[note]; region = Undefined when
\* noteOn returns early
noteOnSelect(msf, note, velocity) ==
  LET layer == lookupLayer(msf, note, velocity)
      none == [note |-> note, velocity |-> velocity, region |-> Undefined,
               velocityMin |-> Undefined, playback |-> [semitones |-> 0]]
  IN IF layer = NoLayer \/ layer.regionIndex + 1 \notin 1..Len(msf.regions) THEN none
     ELSE LET region == msf.regions[layer.regionIndex + 1]
          IN IF note \notin DOMAIN region.notePlayback THEN none
             ELSE IF ~InSampleIndex(msf, region.sampleId) THEN none
             ELSE [note |-> note, velocity |-> velocity, region |-> layer.regionIndex,
                   velocityMin |-> layer.velocityMin,
                   playback |-> region.notePlayback[note]]

----------------------------------------------------------------------------
(* The runtime: MSFRuntime's voices, noteOn, noteOff, render and reset      *)

\* frames of decoded audio per channel of every sample file
SourceFrames == 4

\* baseFadeInFrames and baseFadeOutFrames of compile, scaled down from the
\* thousands of frames the default parameters give at 44100 Hz
BaseFadeInFrames == 1

BaseFadeOutFrames == 2

\* resampleRatio = (sourceSampleRate / sampleRate) * playbackRate with both
\* rates 44100, as numerator and denominator; exact for whole octaves, which
\* are the only transpositions the runtime scenario plays
ResampleRatio(semitones) ==
  CASE semitones = 0 -> <<1, 1>>
    [] semitones = 12 -> <<2, 1>>
    [] semitones = 24 -> <<4, 1>>
    [] semitones = 0 - 12 -> <<1, 2>>
    [] semitones = 0 - 24 -> <<1, 4>>

\* Math.floor(base / playbackRate)
FramesAtRate(base, ratio) == (base * ratio[2]) \div ratio[1]

\* loadAudio(sample): decodeWAV for a ".wav" path, undefined otherwise
IsWav(path) == path[2] = ".wav"

\* the path of the sample of region index k (from 0)
RegionPath(msf, k) == SamplePath(msf.sampleSets, msf.regions[k + 1].sampleId)

\* the Voice noteOn(note, velocity) creates from what it resolved; the audio
\* buffer and the playback data are named by the region index, the gain
\* velocity / 127 * playback.gain by the velocity
NewVoice(sel) ==
  LET ratio == ResampleRatio(sel.playback.semitones)
  IN [note |-> sel.note,
      region |-> sel.region,
      position |-> 0,
      velocity |-> sel.velocity,
      resampleRatio |-> ratio,
      totalSourceFrames |-> SourceFrames,
      fadeInFrames |-> FramesAtRate(BaseFadeInFrames, ratio),
      fadeOutFrames |-> FramesAtRate(BaseFadeOutFrames, ratio),
      isReleasing |-> FALSE,
      releasePosition |-> 0,
      releaseFrames |-> FramesAtRate(BaseFadeOutFrames, ratio)]

\* Map.set(note, voice) on the voices in insertion order: an existing key
\* keeps its place, a new key goes last
MapSet(vs, voice) ==
  IF \E i \in 1..Len(vs) : vs[i].note = voice.note
  THEN [i \in 1..Len(vs) |-> IF vs[i].note = voice.note THEN voice ELSE vs[i]]
  ELSE Append(vs, voice)

\* noteOn(note, velocity), awaited: the voices and the audio cache afterwards
noteOnVoices(msf, vs, cache, note, velocity) ==
  LET sel == noteOnSelect(msf, note, velocity)
  IN IF sel.region = Undefined THEN vs
     ELSE IF RegionPath(msf, sel.region) \notin cache /\ ~IsWav(RegionPath(msf, sel.region))
     THEN vs
     ELSE MapSet(vs, NewVoice(sel))

noteOnCache(msf, cache, note, velocity) ==
  LET sel == noteOnSelect(msf, note, velocity)
  IN IF sel.region = Undefined THEN cache
     ELSE IF RegionPath(msf, sel.region) \notin cache /\ ~IsWav(RegionPath(msf, sel.region))
     THEN cache
     ELSE cache \cup {RegionPath(msf, sel.region)}

\* mutant of noteOffVoices: the voice is deleted (a hard cut)
noteOffVoicesCut(vs, note) == SelectSeq(vs, LAMBDA v : v.note # note)

\* noteOff(note)
noteOffVoices(vs, note) ==
  [i \in 1..Len(vs) |->
     IF vs[i].note = note
     THEN [vs[i] EXCEPT !.isReleasing = TRUE, !.releasePosition = 0]
     ELSE vs[i]]

\* render, frame i of one voice: the frame is mixed unless the source
\* position pos * resampleRatio has reached totalSourceFrames
FrameMixed(v, i) ==
  (v.position + i) * v.resampleRatio[1] < v.totalSourceFrames * v.resampleRatio[2]

\* the frames 0..frameCount-1 of a voice that are mixed
MixedFrames(v, frameCount) == {i \in 0..(frameCount - 1) : FrameMixed(v, i)}

\* what the voice adds to output frame i: the integers the sample value, the
\* gain and the envelope are computed from (releasePosition is incremented
\* once per mixed frame of a releasing voice)
Contribution(v, i) ==
  [region |-> v.region,
   pos |-> v.position + i,
   velocity |-> v.velocity,
   releasePosition |->
     IF v.isReleasing
     THEN v.releasePosition + Cardinality(MixedFrames(v, i))
     ELSE Undefined,
   releaseFrames |-> v.releaseFrames]

\* the voice after the frame loop of render(frameCount)
VoiceRendered(v, frameCount) ==
  [v EXCEPT !.position = v.position + frameCount,
            !.releasePosition =
               IF v.isReleasing
               THEN v.releasePosition + Cardinality(MixedFrames(v, frameCount))
               ELSE v.releasePosition]

\* mutant of VoiceFinished: only a completed release removes a voice
VoiceFinishedReleased(v) == v.isReleasing /\ v.releasePosition >= v.releaseFrames

\* done || releaseDone
VoiceFinished(v) ==
  \/ v.position * v.resampleRatio[1] >= v.totalSourceFrames * v.resampleRatio[2]
  \/ v.isReleasing /\ v.releasePosition >= v.releaseFrames

\* render(frameCount): the voices afterwards
renderVoices(vs, frameCount) ==
  SelectSeq([k \in 1..Len(vs) |-> VoiceRendered(vs[k], frameCount)],
            LAMBDA v : ~VoiceFinished(v))

\* render(frameCount): the returned buffer, per output frame the contributions
\* added to it in the order of the voices
renderOutput(vs, frameCount) ==
  [f \in 1..frameCount |->
     LET mixing == SelectSeq(vs, LAMBDA v : FrameMixed(v, f - 1))
     IN [k \in 1..Len(mixing) |-> Contribution(mixing[k], f - 1)]]

----------------------------------------------------------------------------
(* Scenario 1: a call of computeKeyRanges on arbitrary arguments *)

\* the variables of the compile scenario while it is not run
IdleCompile ==
  /\ intent = <<>>
  /\ inventory = <<>>
  /\ seedOpt = Undefined
  /\ clock = 0
  /\ bundle = <<>>
  /\ bundle2 = <<>>
  /\ bundleR = <<>>
  /\ lastNoteOn = <<>>

\* the variables of the runtime scenario while it is not run
IdleRuntime ==
  /\ script = <<>>
  /\ done = <<>>
  /\ voices = <<>>
  /\ audioCache = <<>>
  /\ hist = <<>>

\* the variables of the load scenario while it is not run
IdleLoad ==
  /\ loaded = <<>>
  /\ validation = <<>>
  /\ instance = <<>>
  /\ thrown = ""

\* the variables of the suspended noteOn calls while none is modelled
IdleAsync ==
  /\ pending = <<>>
  /\ decodes = <<>>
  /\ outcomes = <<>>
  /\ epoch = 0

\* the variables of the decodeWAV scenario while it is not run
IdleWav ==
  /\ wavFile = <<>>
  /\ decoded = <<>>

\* the variables of the validateIntent scenario while it is not run
IdleIntent ==
  /\ iis = <<>>
  /\ options = <<>>
  /\ intentResult = <<>>

\* the variables of the CLI scenario while it is not run
IdleCli ==
  /\ argv = <<>>
  /\ files = <<>>
  /\ exit = <<>>

\* the variables of the refinement server while it is not run
IdleServer ==
  /\ db = <<>>
  /\ nextId = 0
  /\ inflight = 0
  /\ response = <<>>

InitKeyRanges ==
  /\ IdleIntent
  /\ IdleCli
  /\ IdleServer
  /\ IdleCompile
  /\ IdleRuntime
  /\ IdleLoad
  /\ IdleAsync
  /\ IdleWav
  /\ phase = "krCall"
  /\ roots \in DistinctSeqs(RootPool, MaxRoots) \ {<<>>}
  /\ lo \in BoundPool
  /\ hi \in {h \in BoundPool : lo <= h}
  /\ keyRanges = <<>>

CallComputeKeyRanges ==
  /\ phase = "krCall"
  /\ keyRanges' = computeKeyRanges(roots, lo, hi)
  /\ phase' = "krDone"
  /\ UNCHANGED <<roots, lo, hi>>
  /\ UNCHANGED <<compileVars, rtVars, loadVars, asyncVars, wavVars, intentVars, cliVars, serverVars>>

NextKeyRanges == CallComputeKeyRanges

SpecKeyRanges == InitKeyRanges /\ [][NextKeyRanges]_vars

----------------------------------------------------------------------------
(* C1 *)

\* the range computed for root r
RangeOfRoot(r) == CHOOSE k \in Range(keyRanges) : k.root = r

\* C1 (as claimed): for a non-empty list of distinct roots and lo <= hi,
\* computeKeyRanges returns one range per root, the ranges are pairwise
\* disjoint, their union is exactly lo..hi, the lowest root's range starts at
\* lo and the highest root's range ends at hi.
C1_KeyRangesPartition ==
  phase = "krDone" =>
    /\ Len(keyRanges) = Len(roots)
    /\ {keyRanges[i].root : i \in 1..Len(keyRanges)} = Range(roots)
    /\ \A i, j \in 1..Len(keyRanges) :
         i # j => NotesOf(keyRanges[i]) \cap NotesOf(keyRanges[j]) = {}
    /\ UNION {NotesOf(keyRanges[i]) : i \in 1..Len(keyRanges)} = lo..hi
    /\ \A r \in Range(roots) :
         /\ (\A q \in Range(roots) : r <= q) => RangeOfRoot(r).loKey = lo
         /\ (\A q \in Range(roots) : q <= r) => RangeOfRoot(r).hiKey = hi

\* the same statement restricted to roots that lie inside lo..hi
C1_InBoundsPartition ==
  (phase = "krDone" /\ \A r \in Range(roots) : lo <= r /\ r <= hi) =>
    /\ \A i, j \in 1..Len(keyRanges) :
         i # j => NotesOf(keyRanges[i]) \cap NotesOf(keyRanges[j]) = {}
    /\ UNION {NotesOf(keyRanges[i]) : i \in 1..Len(keyRanges)} = lo..hi

----------------------------------------------------------------------------
(* Scenario 2: compile an intent, then play a note on the bundle, compile  *)
(* it a second time, or recompile it from what the bundle holds            *)

\* options.seed: absent, or an explicit seed
SeedChoices == {Undefined, 42}

\* the notes and velocities the noteOn calls of the scenario are drawn from
NoteProbes == {60, 66, 67}

VelocityProbes == {50, 100}

IdleKeyRanges ==
  /\ roots = <<>>
  /\ lo = 0
  /\ hi = 0
  /\ keyRanges = <<>>

InitCompile ==
  /\ IdleKeyRanges
  /\ IdleIntent
  /\ IdleCli
  /\ IdleServer
  /\ IdleRuntime
  /\ IdleLoad
  /\ IdleAsync
  /\ IdleWav
  /\ phase = "input"
  /\ intent \in Intents
  /\ inventory = Catalogue
  /\ seedOpt \in SeedChoices
  /\ clock = 1000
  /\ bundle = <<>>
  /\ bundle2 = <<>>
  /\ bundleR = <<>>
  /\ lastNoteOn = <<>>

\* const { instrument } = await compile(intent, inventory, { seed })
Compile ==
  /\ phase = "input"
  /\ bundle' = compile(intent, inventory, seedOpt, clock)
  /\ clock' = clock + 1
  /\ phase' = "compiled"
  /\ UNCHANGED <<intent, inventory, seedOpt, bundle2, bundleR, lastNoteOn>>
  /\ UNCHANGED <<krVars, rtVars, loadVars, asyncVars, wavVars, intentVars, cliVars, serverVars>>

\* the same call once more, later
CompileAgain ==
  /\ phase = "compiled"
  /\ bundle2' = compile(intent, inventory, seedOpt, clock)
  /\ clock' = clock + 1
  /\ phase' = "compiledTwice"
  /\ UNCHANGED <<intent, inventory, seedOpt, bundle, bundleR, lastNoteOn>>
  /\ UNCHANGED <<krVars, rtVars, loadVars, asyncVars, wavVars, intentVars, cliVars, serverVars>>

\* compile(extractIntentFromMSF(B), extractInventoryFromMSF(B), { seed })
Recompile ==
  /\ phase = "compiled"
  /\ bundleR' = compile(extractIntentFromMSF(bundle), extractInventoryFromMSF(bundle),
                        seedOpt, clock)
  /\ clock' = clock + 1
  /\ phase' = "recompiled"
  /\ UNCHANGED <<intent, inventory, seedOpt, bundle, bundle2, lastNoteOn>>
  /\ UNCHANGED <<krVars, rtVars, loadVars, asyncVars, wavVars, intentVars, cliVars, serverVars>>

\* new MSFRuntime(bundle, ...) (which throws without regions), then
\* noteOn(note, velocity) up to the region and playback data it resolves
NoteOn(note, velocity) ==
  /\ phase = "compiled"
  /\ bundle.regions # <<>>
  /\ lastNoteOn' = noteOnSelect(bundle, note, velocity)
  /\ phase' = "played"
  /\ UNCHANGED <<intent, inventory, seedOpt, clock, bundle, bundle2, bundleR>>
  /\ UNCHANGED <<krVars, rtVars, loadVars, asyncVars, wavVars, intentVars, cliVars, serverVars>>

NextCompile ==
  \/ Compile
  \/ CompileAgain
  \/ Recompile
  \/ \E note \in NoteProbes, velocity \in VelocityProbes : NoteOn(note, velocity)

SpecCompile == InitCompile /\ [][NextCompile]_vars

\* a bundle has been compiled
Compiled == phase \in {"compiled", "played", "compiledTwice", "recompiled"}

----------------------------------------------------------------------------
(* C2 *)

\* C2 (as claimed): when the layer list of the requested note is non-empty,
\* noteOn selects the layer with the highest velocityMin that does not exceed
\* the velocity, and never a layer whose velocityMin is greater than it.
C2_HighestLayerNotAbove ==
  (phase = "played" /\ bundle.noteLookup.table[lastNoteOn.note] # <<>>) =>
    /\ lastNoteOn.region # Undefined
    /\ lastNoteOn.velocityMin <= lastNoteOn.velocity
    /\ \A l \in Range(bundle.noteLookup.table[lastNoteOn.note]) :
         l.velocityMin <= lastNoteOn.velocity => l.velocityMin <= lastNoteOn.velocityMin

\* what the scan does guarantee: the selected layer is one of the note's
\* layers, and no layer above the requested velocity is selected when some
\* layer starts at or below it
C2_SelectsAmongLayers ==
  (phase = "played" /\ bundle.noteLookup.table[lastNoteOn.note] # <<>>) =>
    /\ lastNoteOn.region # Undefined
    /\ \E l \in Range(bundle.noteLookup.table[lastNoteOn.note]) :
         l.regionIndex = lastNoteOn.region /\ l.velocityMin = lastNoteOn.velocityMin
    /\ (\E l \in Range(bundle.noteLookup.table[lastNoteOn.note]) :
          l.velocityMin <= lastNoteOn.velocity)
         => /\ lastNoteOn.velocityMin <= lastNoteOn.velocity
            /\ \A l \in Range(bundle.noteLookup.table[lastNoteOn.note]) :
                 l.velocityMin <= lastNoteOn.velocity
                   => l.velocityMin <= lastNoteOn.velocityMin

----------------------------------------------------------------------------
(* C3 *)

\* the intent has one articulation and its resolved samples have distinct roots
OneArticulationDistinctRoots ==
  /\ Len(intent.articulations) = 1
  /\ LET samples == ResolveSamples(inventory, intent.articulations[1].samples)
     IN /\ samples # <<>>
        /\ \A i, j \in 1..Len(samples) :
             i # j => NoteOfSample(samples[i]) # NoteOfSample(samples[j])

\* the roots of the (only) articulation
RootSet ==
  {NoteOfSample(s) : s \in Range(ResolveSamples(inventory, intent.articulations[1].samples))}

\* root r is the one whose midpoint range contains note n: n lies above the
\* midpoint to every lower root and not above the midpoint to every higher one
MidpointOwner(r, n) ==
  /\ r \in RootSet
  /\ \A q \in RootSet : q < r => n > (q + r) \div 2
  /\ \A q \in RootSet : q > r => n <= (r + q) \div 2

\* sel is what noteOn(n, v) must resolve to
ResolvesToOwner(sel, n) ==
  /\ sel.region # Undefined
  /\ MidpointOwner(bundle.regions[sel.region + 1].pitchKeyCenter, n)
  /\ sel.playback = bundle.regions[sel.region + 1].notePlayback[n]
  /\ sel.playback.semitones = n - bundle.regions[sel.region + 1].pitchKeyCenter

\* C3: for a bundle compiled from one articulation whose resolved samples have
\* distinct roots, noteOn(n, v) for n in 21..108 and v in 1..127 resolves to
\* the region rooted at the midpoint owner of n and to that region's
\* notePlayback[n]; every note is tried at the probe velocities, every
\* velocity at the probe notes, and the noteOn that was played is checked too.
C3_NoteOnResolvesMidpointRegion ==
  (Compiled /\ OneArticulationDistinctRoots) =>
    /\ phase = "compiled" =>
         /\ \A n \in instrumentLoKey..instrumentHiKey : \A v \in VelocityProbes \cup {1, 127} :
              ResolvesToOwner(noteOnSelect(bundle, n, v), n)
         /\ \A n \in NoteProbes \cup {instrumentLoKey, instrumentHiKey} : \A v \in 1..127 :
              ResolvesToOwner(noteOnSelect(bundle, n, v), n)
    /\ phase = "played" => ResolvesToOwner(lastNoteOn, lastNoteOn.note)
    /\ (phase = "played" /\ RootSet = {60, 72}) =>
         bundle.regions[lastNoteOn.region + 1].pitchKeyCenter
           = IF lastNoteOn.note <= 66 THEN 60 ELSE 72

\* roots 60 and 72, noteOn(66, 100) resolved to the region rooted at 60
C3_Witness ==
  /\ phase = "played"
  /\ OneArticulationDistinctRoots
  /\ RootSet = {60, 72}
  /\ lastNoteOn.note = 66
  /\ lastNoteOn.velocity = 100
  /\ lastNoteOn.region # Undefined
  /\ bundle.regions[lastNoteOn.region + 1].pitchKeyCenter = 60
  /\ lastNoteOn.playback.semitones = 6

----------------------------------------------------------------------------
(* C4 *)

\* the velocities lo..hi of a region
VelocitiesOf(r) == {v \in 1..127 : r.loVel <= v /\ v <= r.hiVel}

\* the regions (by index) of articulation a rooted at note
RegionsAt(a, note) ==
  {i \in 1..Len(bundle.regions) :
     bundle.regions[i].articulationId = a /\ bundle.regions[i].pitchKeyCenter = note}

\* C4 (as claimed): within one articulation, the velocity ranges of the regions
\* of the samples at one root note partition 1..127: pairwise disjoint, union
\* 1..127.
C4_VelocityRangesPartition ==
  phase = "compiled" =>
    \A a \in Range(ArtIds) : \A note \in 0..127 :
      RegionsAt(a, note) # {} =>
        /\ \A i, j \in RegionsAt(a, note) :
             i # j => VelocitiesOf(bundle.regions[i]) \cap VelocitiesOf(bundle.regions[j]) = {}
        /\ UNION {VelocitiesOf(bundle.regions[i]) : i \in RegionsAt(a, note)} = 1..127

\* the samples of articulation a resolve to pairwise different (note, velocity)
DistinctLayers(a) ==
  \A k \in 1..Len(intent.articulations) :
    intent.articulations[k].id = a =>
      LET samples == ResolveSamples(inventory, intent.articulations[k].samples)
      IN \A i, j \in 1..Len(samples) :
           (i # j /\ NoteOfSample(samples[i]) = NoteOfSample(samples[j]))
             => VelocityOfSample(samples[i]) # VelocityOfSample(samples[j])

\* the partition does hold where no two samples share note and velocity
C4_DistinctVelocitiesPartition ==
  phase = "compiled" =>
    \A a \in Range(ArtIds) : \A note \in 0..127 :
      (RegionsAt(a, note) # {} /\ DistinctLayers(a)) =>
        /\ \A i, j \in RegionsAt(a, note) :
             i # j => VelocitiesOf(bundle.regions[i]) \cap VelocitiesOf(bundle.regions[j]) = {}
        /\ UNION {VelocitiesOf(bundle.regions[i]) : i \in RegionsAt(a, note)} = 1..127

----------------------------------------------------------------------------
(* C5 *)

\* C5: noteLookup.table has exactly the 128 entries 0..127 and every note's
\* layer list is non-decreasing in velocityMin.
C5_TableSorted ==
  phase = "compiled" =>
    /\ DOMAIN bundle.noteLookup.table = 0..127
    /\ Cardinality(DOMAIN bundle.noteLookup.table) = 128
    /\ \A n \in 0..127 :
         LET layers == bundle.noteLookup.table[n]
         IN \A i \in 1..(Len(layers) - 1) : layers[i].velocityMin <= layers[i + 1].velocityMin

\* a bundle in which the sort moved an entry: the regions were pushed for
\* note 60 in an order that is not the order of the table
C5_Witness ==
  /\ phase = "compiled"
  /\ Len(bundle.noteLookup.table[60]) >= 2
  /\ LayersPushed(bundle.regions, bundle.sampleSets, 60) # bundle.noteLookup.table[60]

----------------------------------------------------------------------------
(* C6 *)

\* C6 (as claimed): no note has two lookup entries with the same velocityMin.
C6_VelocityMinUnique ==
  phase = "compiled" =>
    \A n \in 0..127 :
      LET layers == bundle.noteLookup.table[n]
      IN \A i, j \in 1..Len(layers) : i # j => layers[i].velocityMin # layers[j].velocityMin

----------------------------------------------------------------------------
(* C7 *)

\* C7 (as claimed): every region of a compiled bundle has loKey <= hiKey and a
\* non-empty notePlayback table.
C7_RegionsNonEmpty ==
  phase = "compiled" =>
    \A i \in 1..Len(bundle.regions) :
      /\ bundle.regions[i].loKey <= bundle.regions[i].hiKey
      /\ DOMAIN bundle.regions[i].notePlayback # {}

\* it does hold of the regions whose articulation has all roots inside 21..108
C7_InRangeRootsNonEmpty ==
  phase = "compiled" =>
    \A i \in 1..Len(bundle.regions) :
      (\A j \in 1..Len(bundle.regions) :
         bundle.regions[j].articulationId = bundle.regions[i].articulationId
           => bundle.regions[j].pitchKeyCenter \in instrumentLoKey..instrumentHiKey)
        => /\ bundle.regions[i].loKey <= bundle.regions[i].hiKey
           /\ DOMAIN bundle.regions[i].notePlayback # {}

----------------------------------------------------------------------------
(* C8 *)

C8_NoSeedSameBundle ==
  phase = "compiledTwice" => bundle.sampleSets = bundle2.sampleSets

----------------------------------------------------------------------------
(* C10 *)

\* the fields of a region the claim compares
RegionKey(r) ==
  [id |-> r.id, sampleId |-> r.sampleId, loKey |-> r.loKey, hiKey |-> r.hiKey,
   loVel |-> r.loVel, hiVel |-> r.hiVel, pitchKeyCenter |-> r.pitchKeyCenter]

RegionKeys(b) == [i \in 1..Len(b.regions) |-> RegionKey(b.regions[i])]

----------------------------------------------------------------------------
(* Scenario 3: two MSFRuntime instances built from one bundle, each driven  *)
(* through the same script of calls at its own pace                         *)

\* longest script of calls
MaxEvents == 3

\* most frames asked of one render call
MaxFrames == 2

\* the runtime instances
Runtimes == {1, 2}

\* the intent whose bundle the runtimes play: two velocity layers at C4, C5
RuntimeIntent ==
  [name |-> "piano",
   articulations |-> << [id |-> "sustain", samples |-> <<"c4p", "c4f", "c5">>] >>,
   strategy |-> "chromatic"]

\* the calls a script is made of; the notes are whole octaves from their roots
Events ==
  {[op |-> "noteOn", note |-> nv[1], arg |-> nv[2]] :
      nv \in {<<60, 50>>, <<60, 100>>, <<84, 100>>}}
  \cup {[op |-> "noteOff", note |-> n, arg |-> 0] : n \in {60, 84}}
  \cup {[op |-> "render", note |-> 0, arg |-> k] : k \in {1, MaxFrames}}
  \cup {[op |-> "reset", note |-> 0, arg |-> 0]}

InitRuntime ==
  /\ IdleKeyRanges
  /\ IdleIntent
  /\ IdleCli
  /\ IdleServer
  /\ IdleLoad
  /\ IdleAsync
  /\ IdleWav
  /\ phase = "running"
  /\ intent = RuntimeIntent
  /\ inventory = Catalogue
  /\ seedOpt = 42
  /\ clock = 1001
  /\ bundle = compile(RuntimeIntent, Catalogue, 42, 1000)
  /\ bundle2 = <<>>
  /\ bundleR = <<>>
  /\ lastNoteOn = <<>>
  /\ script = <<>>
  /\ done = [r \in Runtimes |-> 0]
  /\ voices = [r \in Runtimes |-> <<>>]
  /\ audioCache = [r \in Runtimes |-> {}]
  /\ hist = [r \in Runtimes |-> <<>>]

\* mutant of VoicesOf: one voice map shared by all instances (a module-level
\* Map instead of an instance field)
VoicesOfShared(r) == voices[1]

\* this.voices and this.audioCache of instance r
VoicesOf(r) == voices[r]

CacheOf(r) == audioCache[r]

\* the caller decides on the next call of the script
Issue(e) ==
  /\ phase = "running"
  /\ Len(script) < MaxEvents
  /\ script' = Append(script, e)
  /\ UNCHANGED <<phase, done, voices, audioCache, hist>>
  /\ UNCHANGED <<krVars, compileVars, loadVars, asyncVars, wavVars, intentVars, cliVars, serverVars>>

\* instance r has made call e: its state and what the call returned
Called(r, vs, cache, out) ==
  /\ voices' = [voices EXCEPT ![r] = vs]
  /\ audioCache' = [audioCache EXCEPT ![r] = cache]
  /\ hist' = [hist EXCEPT ![r] = Append(@, [voices |-> vs, cache |-> cache, output |-> out])]
  /\ done' = [done EXCEPT ![r] = @ + 1]
  /\ UNCHANGED <<phase, script>>
  /\ UNCHANGED <<krVars, compileVars, loadVars, asyncVars, wavVars, intentVars, cliVars, serverVars>>

\* await runtime.noteOn(note, velocity)
RtNoteOn(r) ==
  /\ phase = "running"
  /\ done[r] < Len(script)
  /\ script[done[r] + 1].op = "noteOn"
  /\ LET e == script[done[r] + 1]
     IN Called(r, noteOnVoices(bundle, VoicesOf(r), CacheOf(r), e.note, e.arg),
               noteOnCache(bundle, CacheOf(r), e.note, e.arg), <<>>)

\* runtime.noteOff(note)
RtNoteOff(r) ==
  /\ phase = "running"
  /\ done[r] < Len(script)
  /\ script[done[r] + 1].op = "noteOff"
  /\ Called(r, noteOffVoices(VoicesOf(r), script[done[r] + 1].note), CacheOf(r), <<>>)

\* runtime.render(frameCount)
RtRender(r) ==
  /\ phase = "running"
  /\ done[r] < Len(script)
  /\ script[done[r] + 1].op = "render"
  /\ LET frameCount == script[done[r] + 1].arg
     IN Called(r, renderVoices(VoicesOf(r), frameCount), CacheOf(r),
               renderOutput(VoicesOf(r), frameCount))

\* runtime.reset()
RtReset(r) ==
  /\ phase = "running"
  /\ done[r] < Len(script)
  /\ script[done[r] + 1].op = "reset"
  /\ Called(r, <<>>, CacheOf(r), <<>>)

NextRuntime ==
  \/ \E e \in Events : Issue(e)
  \/ \E r \in Runtimes : RtNoteOn(r)
  \/ \E r \in Runtimes : RtNoteOff(r)
  \/ \E r \in Runtimes : RtRender(r)
  \/ \E r \in Runtimes : RtReset(r)

SpecRuntime == InitRuntime /\ [][NextRuntime]_vars

----------------------------------------------------------------------------
(* C9 *)

----------------------------------------------------------------------------
(* Scenario 4: a bundle file is parsed, then validated with validateMSF or  *)
(* handed to the MSFRuntime constructor                                     *)

\* validateMSF(instrument): the ValidationResult, its errors by their codes
validateMSF(instrument) ==
  LET errors ==
        (IF "identity" \notin DOMAIN instrument THEN <<"MISSING_IDENTITY">> ELSE <<>>)
        \o (IF Len(instrument.sampleSets) = 0 THEN <<"NO_SAMPLE_SETS">> ELSE <<>>)
        \o (IF Len(instrument.keyZones) = 0 THEN <<"NO_KEY_ZONES">> ELSE <<>>)
  IN [valid |-> Len(errors) = 0, errors |-> errors, warnings |-> <<>>]

\* mutant of noRegions: only a missing regions field is refused
noRegionsField(instrument) == "regions" \notin DOMAIN instrument

\* !instrument.regions?.length
noRegions(instrument) ==
  "regions" \notin DOMAIN instrument \/ Len(instrument.regions) = 0

\* the sample ids the constructor puts into this.sampleIndex
sampleIndexOf(instrument) ==
  UNION {{instrument.sampleSets[i].samples[k].id :
            k \in 1..Len(instrument.sampleSets[i].samples)} :
         i \in 1..Len(instrument.sampleSets)}

\* new MSFRuntime(instrument, sampleRate, basePath); basePathArg is the third
\* argument as a list of none or one string. The result is the message of
\* the Error thrown, or the fields of the new object
construct(instrument, sampleRate, basePathArg) ==
  IF noRegions(instrument)
  THEN [thrown |-> "MSFRuntime: No regions. Recompile instrument.", object |-> <<>>]
  ELSE IF basePathArg = <<>> \/ basePathArg[1] = ""
  THEN [thrown |-> "MSFRuntime: basePath is required.", object |-> <<>>]
  ELSE [thrown |-> "",
        object |-> << [regions |-> Len(instrument.regions),
                       sampleRate |-> sampleRate,
                       basePath |-> basePathArg[1],
                       sampleIndex |-> sampleIndexOf(instrument)] >>]

\* the third argument of the constructor calls: absent (as the audition
\* harness calls it), empty, or a directory
BasePathArgs == {<<>>, <<"">>, <<"/samples">>}

\* the subsequence of s at the indexes in keep
Keep(s, keep) ==
  LET F[k \in 0..Len(s)] ==
        IF k = 0 THEN <<>>
        ELSE IF k \in keep THEN Append(F[k - 1], s[k]) ELSE F[k - 1]
  IN F[Len(s)]

InitLoad ==
  /\ IdleKeyRanges
  /\ IdleIntent
  /\ IdleCli
  /\ IdleServer
  /\ IdleAsync
  /\ IdleWav
  /\ phase = "file"
  /\ intent \in Intents
  /\ inventory = Catalogue
  /\ seedOpt = 42
  /\ clock = 1000
  /\ bundle = compile(intent, Catalogue, 42, 1000)
  /\ bundle2 = <<>>
  /\ bundleR = <<>>
  /\ lastNoteOn = <<>>
  /\ script = <<>>
  /\ done = <<>>
  /\ voices = <<>>
  /\ audioCache = <<>>
  /\ hist = <<>>
  /\ loaded = <<>>
  /\ validation = <<>>
  /\ instance = <<>>
  /\ thrown = ""

Parsed(msf) ==
  /\ phase = "file"
  /\ loaded' = msf
  /\ phase' = "loaded"
  /\ UNCHANGED <<validation, instance, thrown>>
  /\ UNCHANGED <<krVars, compileVars, rtVars, asyncVars, wavVars, intentVars, cliVars, serverVars>>

\* JSON.parse of a bundle file the compiler wrote
LoadCompiled == Parsed(bundle)

\* JSON.parse of a bundle file whose regions list holds only some of the
\* regions of its samples, or none (as the bundle files the CLI is given to
\* recompile: sample sets with "regions: []")
LoadPartial(keep) ==
  /\ keep # 1..Len(bundle.regions)
  /\ Parsed([bundle EXCEPT !.regions = Keep(bundle.regions, keep)])

\* JSON.parse of a bundle file written before regions existed
LoadLegacy == Parsed([f \in DOMAIN bundle \ {"regions"} |-> bundle[f]])

\* validateMSF(instrument)
ValidateMSF ==
  /\ phase = "loaded"
  /\ validation' = validateMSF(loaded)
  /\ phase' = "validated"
  /\ UNCHANGED <<loaded, instance, thrown>>
  /\ UNCHANGED <<krVars, compileVars, rtVars, asyncVars, wavVars, intentVars, cliVars, serverVars>>

\* runtime = new MSFRuntime(instrument, 44100, basePath)
Construct(basePathArg) ==
  /\ phase = "loaded"
  /\ LET r == construct(loaded, 44100, basePathArg)
     IN /\ thrown' = r.thrown
        /\ instance' = r.object
  /\ script' = << [op |-> "new", basePathArg |-> basePathArg] >>
  /\ phase' = "constructed"
  /\ UNCHANGED <<loaded, validation, done, voices, audioCache, hist>>
  /\ UNCHANGED <<krVars, compileVars, asyncVars, wavVars, intentVars, cliVars, serverVars>>

NextLoad ==
  \/ LoadCompiled
  \/ \E keep \in SUBSET (1..Len(bundle.regions)) : LoadPartial(keep)
  \/ LoadLegacy
  \/ ValidateMSF
  \/ \E basePathArg \in BasePathArgs : Construct(basePathArg)

SpecLoad == InitLoad /\ [][NextLoad]_vars

----------------------------------------------------------------------------
(* C11, C12, C13 *)

\* the sample ids of the sample sets that are the sampleId of no region
SamplesWithoutRegions(msf) ==
  sampleIndexOf(msf) \ {msf.regions[i].sampleId : i \in 1..Len(msf.regions)}

\* C11: validateMSF returns valid = false with an error of code NO_REGIONS
\* for every bundle whose regions list is empty.
C11_NoRegionsRejected ==
  (phase = "validated" /\ "regions" \in DOMAIN loaded /\ loaded.regions = <<>>)
    => /\ ~validation.valid
       /\ "NO_REGIONS" \in Range(validation.errors)

\* C12: validateMSF returns valid = false with an error of code
\* SAMPLES_WITHOUT_REGIONS for every bundle in which some sample id of the
\* sample sets is the sampleId of no region.
C12_SamplesWithoutRegionsRejected ==
  (phase = "validated" /\ "regions" \in DOMAIN loaded
     /\ SamplesWithoutRegions(loaded) # {})
    => /\ ~validation.valid
       /\ "SAMPLES_WITHOUT_REGIONS" \in Range(validation.errors)

\* what validateMSF does reject: a bundle without sample sets or key zones,
\* which is every bundle the compiler itself writes without regions
C11_CompiledWithoutRegionsInvalid ==
  (phase = "validated" /\ loaded = bundle /\ loaded.regions = <<>>)
    => /\ ~validation.valid
       /\ "NO_SAMPLE_SETS" \in Range(validation.errors)

----------------------------------------------------------------------------
(* C14 *)

\* the voices and the audio cache of instance r before its k-th call
VoicesBefore(r, k) == IF k = 1 THEN <<>> ELSE hist[r][k - 1].voices

CacheBefore(r, k) == IF k = 1 THEN {} ELSE hist[r][k - 1].cache

----------------------------------------------------------------------------
(* Scenario 5: one runtime plays notes, then is only rendered (and notes    *)
(* released) until it is silent                                             *)

\* most noteOn calls made before the runtime is only rendered
MaxPlayed == 2

\* the noteOn calls of the scenario: the roots, an octave up and an octave down
DrainNotes == {<<60, 50>>, <<84, 100>>, <<48, 100>>}

InitDrain ==
  /\ IdleKeyRanges
  /\ IdleIntent
  /\ IdleCli
  /\ IdleServer
  /\ IdleLoad
  /\ IdleAsync
  /\ IdleWav
  /\ phase = "playing"
  /\ intent = RuntimeIntent
  /\ inventory = Catalogue
  /\ seedOpt = 42
  /\ clock = 1001
  /\ bundle = compile(RuntimeIntent, Catalogue, 42, 1000)
  /\ bundle2 = <<>>
  /\ bundleR = <<>>
  /\ lastNoteOn = <<>>
  /\ script = <<>>
  /\ done = [r \in {1} |-> 0]
  /\ voices = [r \in {1} |-> <<>>]
  /\ audioCache = [r \in {1} |-> {}]
  /\ hist = [r \in {1} |-> <<>>]

\* the runtime has made a call: its voices and cache, and the call as the
\* last one made
DrainCalled(op, arg, vs, cache) ==
  /\ voices' = [voices EXCEPT ![1] = vs]
  /\ audioCache' = [audioCache EXCEPT ![1] = cache]
  /\ hist' = [hist EXCEPT ![1] = << [op |-> op, arg |-> arg] >>]
  /\ UNCHANGED script
  /\ UNCHANGED <<krVars, compileVars, loadVars, asyncVars, wavVars, intentVars, cliVars, serverVars>>

\* await runtime.noteOn(note, velocity), at most MaxPlayed times
PlayNoteOn(note, velocity) ==
  /\ phase = "playing"
  /\ done[1] < MaxPlayed
  /\ done' = [done EXCEPT ![1] = @ + 1]
  /\ DrainCalled("noteOn", note,
                 noteOnVoices(bundle, VoicesOf(1), CacheOf(1), note, velocity),
                 noteOnCache(bundle, CacheOf(1), note, velocity))
  /\ UNCHANGED phase

\* runtime.noteOff(note), while playing or afterwards
PlayNoteOff(note) ==
  /\ DrainCalled("noteOff", note, noteOffVoices(VoicesOf(1), note), CacheOf(1))
  /\ UNCHANGED <<phase, done>>

\* runtime.render(frameCount) while notes are still played; frameCount may be 0
PlayRender(frameCount) ==
  /\ phase = "playing"
  /\ DrainCalled("render", frameCount, renderVoices(VoicesOf(1), frameCount), CacheOf(1))
  /\ UNCHANGED <<phase, done>>

\* the caller makes no further noteOn call
StopPlaying ==
  /\ phase = "playing"
  /\ phase' = "draining"
  /\ UNCHANGED <<rtVars, krVars, compileVars, loadVars, asyncVars, wavVars, intentVars, cliVars, serverVars>>

\* runtime.render(frameCount) with frameCount > 0, after the last noteOn
DrainRender(frameCount) ==
  /\ phase = "draining"
  /\ DrainCalled("render", frameCount, renderVoices(VoicesOf(1), frameCount), CacheOf(1))
  /\ UNCHANGED <<phase, done>>

RenderAgain == \E frameCount \in 1..MaxFrames : DrainRender(frameCount)

NextDrain ==
  \/ \E nv \in DrainNotes : PlayNoteOn(nv[1], nv[2])
  \/ \E nv \in DrainNotes : PlayNoteOff(nv[1])
  \/ \E frameCount \in {0, MaxFrames} : PlayRender(frameCount)
  \/ StopPlaying
  \/ RenderAgain

\* render is called again and again once the notes have been played
SpecDrain == InitDrain /\ [][NextDrain]_vars /\ WF_vars(RenderAgain)

----------------------------------------------------------------------------
(* C15 *)

\* the last call was a render
JustRendered == hist[1] # <<>> /\ hist[1][1].op = "render"

\* after a render pass no voice remains whose source position has reached its
\* total source frames, and none whose release has completed
NoFinishedVoiceLeft ==
  JustRendered =>
    \A i \in 1..Len(voices[1]) :
      LET v == voices[1][i]
      IN /\ v.position * v.resampleRatio[1] < v.totalSourceFrames * v.resampleRatio[2]
         /\ ~(v.isReleasing /\ v.releasePosition >= v.releaseFrames)

\* C15: after every render pass no voice remains whose source position has
\* reached its total source frame count and none that is releasing with
\* releasePosition >= releaseFrames; and under repeated render calls with
\* frameCount > 0 and no further noteOn every voice is eventually removed.
C15_FinishedVoicesRemoved ==
  /\ []NoFinishedVoiceLeft
  /\ (phase = "draining") ~> (voices[1] = <<>>)

\* a render after the last noteOn has removed the last voice
C15_Witness ==
  /\ phase = "draining"
  /\ JustRendered
  /\ voices[1] = <<>>
  /\ audioCache[1] # {}
  /\ done[1] = MaxPlayed

----------------------------------------------------------------------------
(* Scenario 6: one runtime whose noteOn calls are not awaited: a call       *)
(* suspends at "await this.loadAudio(sample)" and other calls run before it *)
(* resumes                                                                  *)

\* most reset() calls
MaxResets == 2

\* the inventory of the scenario: the catalogue and a FLAC file, which the
\* directory scan of the inventory package lists like the WAV files
AsyncInventory ==
  Catalogue @@
  ( "c3flac" :> [Entry("c3flac", 48, 100, Undefined) EXCEPT !.path = <<"c3flac", ".flac">>] )

AsyncIntent ==
  [name |-> "piano",
   articulations |-> << [id |-> "sustain", samples |-> <<"c3flac", "c4f", "c5">>] >>,
   strategy |-> "chromatic"]

\* the notes of the noteOn calls: the three roots, and a note below the
\* instrument range
AsyncNotes == {10, 48, 60, 72}

\* the sample paths of a bundle
PathsOf(msf) ==
  UNION {{msf.sampleSets[i].samples[k].path : k \in 1..Len(msf.sampleSets[i].samples)} :
         i \in 1..Len(msf.sampleSets)}

InitAsync ==
  /\ IdleKeyRanges
  /\ IdleIntent
  /\ IdleCli
  /\ IdleServer
  /\ IdleLoad
  /\ IdleWav
  /\ phase = "async"
  /\ intent = AsyncIntent
  /\ inventory = AsyncInventory
  /\ seedOpt = 42
  /\ clock = 1001
  /\ bundle = compile(AsyncIntent, AsyncInventory, 42, 1000)
  /\ bundle2 = <<>>
  /\ bundleR = <<>>
  /\ lastNoteOn = <<>>
  /\ script = <<>>
  /\ done = [r \in {1} |-> 0]
  /\ voices = [r \in {1} |-> <<>>]
  /\ audioCache = [r \in {1} |-> {}]
  /\ hist = [r \in {1} |-> <<>>]
  /\ pending = <<>>
  /\ decodes = [p \in PathsOf(compile(AsyncIntent, AsyncInventory, 42, 1000)) |-> 0]
  /\ outcomes = <<>>
  /\ epoch = 0

\* how a noteOn call ended: its promise resolved with a voice set
\* ("voice"), resolved without one ("none"), or rejected ("rejected")
Outcome(note, path, invoked, result) ==
  [note |-> note, path |-> path, invoked |-> invoked, settled |-> epoch, result |-> result]

\* noteOn(note, velocity) from its invocation to its return or to its first
\* suspension: lookupRegion and the early returns; with the audio in the
\* cache the voice is set at once; otherwise loadAudio is called, which
\* starts decodeWAV for a ".wav" path and returns undefined for any other,
\* and the call waits for that promise
NoteOnInvoke(note, velocity) ==
  /\ phase = "async"
  /\ done[1] < MaxEvents
  /\ done' = [done EXCEPT ![1] = @ + 1]
  /\ hist' = [hist EXCEPT ![1] = << [op |-> "noteOn", output |-> <<>>] >>]
  /\ LET sel == noteOnSelect(bundle, note, velocity)
     IN IF sel.region = Undefined
        THEN /\ outcomes' = Append(outcomes, Outcome(note, <<"", "">>, epoch, "none"))
             /\ UNCHANGED <<voices, audioCache, pending, decodes>>
        ELSE LET path == RegionPath(bundle, sel.region)
             IN IF path \in CacheOf(1)
                THEN /\ voices' = [voices EXCEPT ![1] = MapSet(@, NewVoice(sel))]
                     /\ outcomes' = Append(outcomes, Outcome(note, path, epoch, "voice"))
                     /\ UNCHANGED <<audioCache, pending, decodes>>
                ELSE /\ pending' = Append(pending, [sel |-> sel, path |-> path,
                                                    invoked |-> epoch])
                     /\ decodes' = IF IsWav(path)
                                   THEN [decodes EXCEPT ![path] = @ + 1]
                                   ELSE decodes
                     /\ UNCHANGED <<voices, audioCache, outcomes>>
  /\ UNCHANGED <<phase, script, epoch>>
  /\ UNCHANGED <<krVars, compileVars, loadVars, wavVars, intentVars, cliVars, serverVars>>

\* the k-th suspended noteOn call resumes after "await this.loadAudio(sample)":
\* without audio it returns; with audio it fills the cache and sets the voice
NoteOnResume(k) ==
  /\ phase = "async"
  /\ k \in 1..Len(pending)
  /\ LET call == pending[k]
     IN /\ pending' = [i \in 1..(Len(pending) - 1) |->
                         IF i < k THEN pending[i] ELSE pending[i + 1]]
        /\ IF IsWav(call.path)
           THEN /\ audioCache' = [audioCache EXCEPT ![1] = @ \cup {call.path}]
                /\ voices' = [voices EXCEPT ![1] = MapSet(@, NewVoice(call.sel))]
                /\ outcomes' = Append(outcomes,
                                      Outcome(call.sel.note, call.path, call.invoked, "voice"))
           ELSE /\ outcomes' = Append(outcomes,
                                      Outcome(call.sel.note, call.path, call.invoked, "none"))
                /\ UNCHANGED <<voices, audioCache>>
  /\ UNCHANGED <<phase, script, done, hist, decodes, epoch>>
  /\ UNCHANGED <<krVars, compileVars, loadVars, wavVars, intentVars, cliVars, serverVars>>

\* runtime.reset()
AsyncReset ==
  /\ phase = "async"
  /\ epoch < MaxResets
  /\ voices' = [voices EXCEPT ![1] = <<>>]
  /\ epoch' = epoch + 1
  /\ hist' = [hist EXCEPT ![1] = << [op |-> "reset", output |-> <<>>] >>]
  /\ UNCHANGED <<phase, script, done, audioCache, pending, decodes, outcomes>>
  /\ UNCHANGED <<krVars, compileVars, loadVars, wavVars, intentVars, cliVars, serverVars>>

\* runtime.render(frameCount)
AsyncRender(frameCount) ==
  /\ phase = "async"
  /\ voices' = [voices EXCEPT ![1] = renderVoices(@, frameCount)]
  /\ hist' = [hist EXCEPT ![1] =
                << [op |-> "render", output |-> renderOutput(VoicesOf(1), frameCount)] >>]
  /\ UNCHANGED <<phase, script, done, audioCache, pending, decodes, outcomes, epoch>>
  /\ UNCHANGED <<krVars, compileVars, loadVars, wavVars, intentVars, cliVars, serverVars>>

NextAsync ==
  \/ \E note \in AsyncNotes : NoteOnInvoke(note, 100)
  \/ \E k \in 1..MaxEvents : NoteOnResume(k)
  \/ AsyncReset
  \/ AsyncRender(MaxFrames)

SpecAsync == InitAsync /\ [][NextAsync]_vars

----------------------------------------------------------------------------
(* C16, C17, C18 *)

\* no noteOn call has been invoked since the last reset() returned
NoNoteOnSinceReset ==
  /\ epoch > 0
  /\ \A k \in 1..Len(pending) : pending[k].invoked < epoch
  /\ \A k \in 1..Len(outcomes) : outcomes[k].invoked < epoch

\* a render output without any contribution
Silent(output) == \A f \in 1..Len(output) : output[f] = <<>>

\* C16: after reset() has returned the runtime has no voices, and render
\* yields silence, until a noteOn that is invoked after the reset; a noteOn
\* invoked before the reset and still awaiting its sample adds no voice
\* after it.
C16_ResetSilencesPending ==
  /\ NoNoteOnSinceReset => voices[1] = <<>>
  /\ (NoNoteOnSinceReset /\ hist[1][1].op = "render") => Silent(hist[1][1].output)
  /\ \A k \in 1..Len(outcomes) :
       outcomes[k].result = "voice" => outcomes[k].invoked = outcomes[k].settled

\* C17: each sample path is decoded at most once per runtime instance, over
\* any interleaving of noteOn calls, calls made before the first decode of
\* the path has completed included.
C17_DecodedAtMostOnce == \A p \in DOMAIN decodes : decodes[p] <= 1

\* C18: a noteOn for a region whose sample path is not a .wav file rejects;
\* it never resolves without having created a voice.
C18_NonWavRejects ==
  \A k \in 1..Len(outcomes) :
    (outcomes[k].path # <<"", "">> /\ ~IsWav(outcomes[k].path))
      => outcomes[k].result = "rejected"

----------------------------------------------------------------------------
(* Scenario 7: decodeWAV on a RIFF/WAVE file                                *)

\* a sub-chunk of the file: its four-character id, the size its header
\* declares and, for "fmt ", the bits-per-sample field of its payload
Chunk(id, size, bits) == [id |-> id, size |-> size, bits |-> bits]

\* the sub-chunks the files are made of: a 16-byte PCM format chunk of each
\* bit depth the decoder knows and one it does not, data chunks (empty, odd
\* and even sized) and an odd and an even sized LIST chunk
Chunks ==
  {Chunk("fmt ", 16, b) : b \in {8, 16, 24, 32}}
  \cup {Chunk("data", n, 0) : n \in {0, 9, 12}}
  \cup {Chunk("LIST", n, 0) : n \in {3, 4}}

\* the files: one "fmt ", one "data" and at most one "LIST" chunk, in any order
WavFiles ==
  {f \in DistinctSeqs(Chunks, 3) :
     /\ Cardinality({k \in 1..Len(f) : f[k].id = "fmt "}) = 1
     /\ Cardinality({k \in 1..Len(f) : f[k].id = "data"}) = 1}

\* the bytes a chunk takes in the file: header, payload and the pad byte
\* after a payload of odd size
ChunkBytes(c) == 8 + c.size + (c.size % 2)

\* the offset of the header of chunk k, behind the 12-byte RIFF header
RECURSIVE ChunkOffset(_, _)
ChunkOffset(file, k) ==
  IF k = 1 THEN 12 ELSE ChunkOffset(file, k - 1) + ChunkBytes(file[k - 1])

\* buf.byteLength
ByteLength(file) ==
  IF file = <<>> THEN 12 ELSE ChunkOffset(file, Len(file)) + ChunkBytes(file[Len(file)])

\* the chunk header read at an offset: the chunk that starts there; bytes
\* that are no chunk header read as an unknown id
ReadChunk(file, offset) ==
  IF \E k \in 1..Len(file) : ChunkOffset(file, k) = offset
  THEN file[CHOOSE k \in 1..Len(file) : ChunkOffset(file, k) = offset]
  ELSE Chunk("????", 0, 0)

\* mutant of NextOffset: no word alignment
NextOffsetUnaligned(offset, chunkSize) == offset + 8 + chunkSize

\* offset += 8 + chunkSize; if (chunkSize % 2 !== 0) offset++
NextOffset(offset, chunkSize) ==
  offset + 8 + chunkSize + (IF chunkSize % 2 # 0 THEN 1 ELSE 0)

\* the while loop of decodeWAV from an offset on: bitsPerSample, dataStart
\* and dataSize when it ends
RECURSIVE WalkChunks(_, _, _)
WalkChunks(file, offset, bitsPerSample) ==
  IF ~(offset < ByteLength(file) - 8)
  THEN [bitsPerSample |-> bitsPerSample, dataStart |-> 0, dataSize |-> 0]
  ELSE LET c == ReadChunk(file, offset)
       IN IF c.id = "fmt "
          THEN WalkChunks(file, NextOffset(offset, c.size), c.bits)
          ELSE IF c.id = "data"
          THEN [bitsPerSample |-> bitsPerSample, dataStart |-> offset + 8,
                dataSize |-> c.size]
          ELSE WalkChunks(file, NextOffset(offset, c.size), bitsPerSample)

\* decodeWAV(path, meta): the Error thrown, or how the samples were read
decodeWAV(file) ==
  LET w == WalkChunks(file, 12, 16)
      none == [thrown |-> "", bitsPerSample |-> w.bitsPerSample,
               dataStart |-> w.dataStart, sampleCount |-> 0]
  IN IF w.dataStart = 0 \/ w.dataSize = 0
     THEN [none EXCEPT !.thrown = "Invalid WAV file"]
     ELSE IF w.bitsPerSample \in {16, 24, 32}
     THEN [none EXCEPT !.sampleCount = (w.dataSize * 8) \div w.bitsPerSample]
     ELSE [none EXCEPT !.thrown = "Unsupported bit depth"]

InitDecode ==
  /\ IdleKeyRanges
  /\ IdleIntent
  /\ IdleCli
  /\ IdleServer
  /\ IdleCompile
  /\ IdleRuntime
  /\ IdleLoad
  /\ IdleAsync
  /\ phase = "wav"
  /\ wavFile \in WavFiles
  /\ decoded = <<>>

\* await this.decodeWAV(path, sample.metadata)
DecodeWAV ==
  /\ phase = "wav"
  /\ decoded' = decodeWAV(wavFile)
  /\ phase' = "decoded"
  /\ UNCHANGED wavFile
  /\ UNCHANGED <<krVars, compileVars, rtVars, loadVars, asyncVars, intentVars, cliVars, serverVars>>

NextDecode == DecodeWAV

SpecDecode == InitDecode /\ [][NextDecode]_vars

----------------------------------------------------------------------------
(* C19 *)

\* the "fmt " and the "data" chunk of the file
IndexOf(id) == CHOOSE k \in 1..Len(wavFile) : wavFile[k].id = id

\* the data chunk was decoded with the declared bits per sample, from the
\* start of its payload
DecodedAsDeclared ==
  LET fmt == wavFile[IndexOf("fmt ")]
      data == wavFile[IndexOf("data")]
  IN /\ decoded.thrown = ""
     /\ decoded.bitsPerSample = fmt.bits
     /\ decoded.dataStart = ChunkOffset(wavFile, IndexOf("data")) + 8
     /\ decoded.sampleCount = (data.size * 8) \div fmt.bits

\* the file declares a bit depth the decoder supports and holds samples
Decodable ==
  /\ wavFile[IndexOf("fmt ")].bits \in {16, 24, 32}
  /\ wavFile[IndexOf("data")].size > 0

\* C19: decodeWAV decodes the data chunk with the bits-per-sample the "fmt "
\* chunk declares, for every order of the sub-chunks behind the 12-byte RIFF
\* header (files where "data" precedes "fmt " included), odd-sized chunks
\* being padded to an even offset.
C19_DecodesAnyChunkOrder ==
  (phase = "decoded" /\ Decodable) => DecodedAsDeclared

\* what the walk does achieve: with "fmt " before "data" the data chunk is
\* decoded as declared, across odd and even sized chunks in between
C19_FmtFirstDecoded ==
  (phase = "decoded" /\ Decodable /\ IndexOf("fmt ") < IndexOf("data"))
    => DecodedAsDeclared

----------------------------------------------------------------------------
(* C20 (checked under SpecCompile) *)

\* the sample ids of an articulation that the inventory resolves, in order,
\* and those it does not
ResolvedIds(a) == SelectSeq(a.samples, LAMBDA id : id \in DOMAIN inventory)

AbsentIds(a) == {id \in Range(a.samples) : id \notin DOMAIN inventory}

\* the sample ids of the sample set built for an articulation, <<>> when
\* there is none; the sample ids of its regions
SetIdsOf(a) ==
  LET sets == SelectSeq(bundle.sampleSets, LAMBDA s : s.id = <<"sampleset_", a.id>>)
  IN IF sets = <<>> THEN <<>>
     ELSE [k \in 1..Len(sets[1].samples) |-> sets[1].samples[k].id]

RegionIdsOf(a) ==
  LET rs == SelectSeq(bundle.regions, LAMBDA r : r.articulationId = a.id)
  IN [k \in 1..Len(rs) |-> rs[k].sampleId]

\* the build report warns about sample id of articulation a: a warning that
\* names the sample, or the warning that the articulation has no valid samples
WarnedAbout(a, id) ==
  \E w \in Range(bundle.warnings) : w[2] = id \/ w = <<"noValidSamples", a.id>>

\* unresolved samples are skipped: every articulation is built from exactly
\* the samples that resolve, and one without any is dropped with a warning
SkippedAndBuilt ==
  \A i \in 1..Len(intent.articulations) :
    LET a == intent.articulations[i]
    IN /\ SetIdsOf(a) = ResolvedIds(a)
       /\ RegionIdsOf(a) = ResolvedIds(a)
       /\ ResolvedIds(a) = <<>> =>
            /\ <<"noValidSamples", a.id>> \in Range(bundle.warnings)
            /\ \A k \in 1..Len(bundle.sampleSets) :
                 bundle.sampleSets[k].id # <<"sampleset_", a.id>>

\* C20: compile does not fail on unresolved sample ids: every sample id of an
\* articulation that is absent from the inventory adds a warning to the build
\* report and is skipped, the articulation is built from the samples that
\* resolve, and an articulation without resolved samples adds a warning and
\* contributes no sample set and no region.
C20_UnresolvedSamplesWarned ==
  phase = "compiled" =>
    /\ SkippedAndBuilt
    /\ \A i \in 1..Len(intent.articulations) :
         \A id \in AbsentIds(intent.articulations[i]) :
           WarnedAbout(intent.articulations[i], id)

\* what compile does achieve: the skipping, and the warning for an
\* articulation left without samples
C20_UnresolvedSamplesSkipped == phase = "compiled" => SkippedAndBuilt

----------------------------------------------------------------------------
(* Scenario 8: a runtime plays an instrument compiled with round-robin      *)
(* variants                                                                 *)

\* the inventory of the scenario: the catalogue and three round-robin
\* variants of C4 at velocity 100
RoundRobinInventory ==
  Catalogue @@
  ( "rr1" :> Entry("rr1", 60, 100, 1) ) @@
  ( "rr2" :> Entry("rr2", 60, 100, 2) ) @@
  ( "rr3" :> Entry("rr3", 60, 100, 3) )

\* the intents: one articulation of two or three of the variants, with or
\* without C5, in any order
RoundRobinIntents ==
  {[name |-> "piano",
    articulations |-> << [id |-> "staccato", samples |-> ss] >>,
    strategy |-> "chromatic"] :
     ss \in {s \in DistinctSeqs({"rr1", "rr2", "rr3", "c5"}, 3) :
               Cardinality(Range(s) \ {"c5"}) >= 2}}

\* the notes and velocities of the noteOn calls
RoundRobinNotes == {60, 72}

RoundRobinVelocities == {100, 120}

InitRoundRobin ==
  /\ IdleKeyRanges
  /\ IdleIntent
  /\ IdleCli
  /\ IdleServer
  /\ IdleLoad
  /\ IdleAsync
  /\ IdleWav
  /\ phase = "roundRobin"
  /\ intent \in RoundRobinIntents
  /\ inventory = RoundRobinInventory
  /\ seedOpt = 42
  /\ clock = 1001
  /\ bundle = compile(intent, RoundRobinInventory, 42, 1000)
  /\ bundle2 = <<>>
  /\ bundleR = <<>>
  /\ lastNoteOn = <<>>
  /\ script = <<>>
  /\ done = [r \in {1} |-> 0]
  /\ voices = [r \in {1} |-> <<>>]
  /\ audioCache = [r \in {1} |-> {}]
  /\ hist = [r \in {1} |-> <<>>]

\* await runtime.noteOn(note, velocity); the call and the sample of the
\* region it resolved are kept
RoundRobinNoteOn(note, velocity) ==
  /\ phase = "roundRobin"
  /\ done[1] < MaxEvents
  /\ done' = [done EXCEPT ![1] = @ + 1]
  /\ LET sel == noteOnSelect(bundle, note, velocity)
     IN /\ lastNoteOn' = sel
        /\ hist' = [hist EXCEPT ![1] =
                      Append(@, [note |-> note, velocity |-> velocity,
                                 sampleId |-> IF sel.region = Undefined THEN ""
                                              ELSE bundle.regions[sel.region + 1].sampleId])]
  /\ voices' = [voices EXCEPT ![1] = noteOnVoices(bundle, VoicesOf(1), CacheOf(1), note, velocity)]
  /\ audioCache' = [audioCache EXCEPT ![1] = noteOnCache(bundle, CacheOf(1), note, velocity)]
  /\ UNCHANGED <<phase, script, intent, inventory, seedOpt, clock, bundle, bundle2, bundleR>>
  /\ UNCHANGED <<krVars, loadVars, asyncVars, wavVars, intentVars, cliVars, serverVars>>

NextRoundRobin ==
  \E note \in RoundRobinNotes, velocity \in RoundRobinVelocities :
    RoundRobinNoteOn(note, velocity)

SpecRoundRobin == InitRoundRobin /\ [][NextRoundRobin]_vars

----------------------------------------------------------------------------
(* C21 *)

\* the round-robin count of the sample set of the bundle
RoundRobinCount == bundle.sampleSets[1].roundRobin.count

\* the calls of the runtime for one note and velocity, in order
CallsFor(note, velocity) ==
  SelectSeq(hist[1], LAMBDA c : c.note = note /\ c.velocity = velocity)

\* C21: with a round-robin configuration of count n >= 2 whose variants share
\* note and velocity, successive noteOn calls for that note and velocity
\* rotate among the n variants: two successive calls never select the same
\* sample.
C21_RoundRobinRotates ==
  RoundRobinCount >= 2 =>
    \A note \in RoundRobinNotes, velocity \in RoundRobinVelocities :
      LET calls == CallsFor(note, velocity)
      IN \A k \in 1..(Len(calls) - 1) : calls[k].sampleId # calls[k + 1].sampleId

\* what the runtime does: every call for a note and velocity selects the
\* same sample
C21_SameSampleEveryCall ==
  \A note \in RoundRobinNotes, velocity \in RoundRobinVelocities :
    LET calls == CallsFor(note, velocity)
    IN \A k \in 1..(Len(calls) - 1) : calls[k].sampleId = calls[k + 1].sampleId

----------------------------------------------------------------------------
(* Scenario 9: validateIntent, the IIS validation and repair pass *)

\* the longest articulation list and modulation source list of an intent
MaxIntentArticulations == 2

MaxModulationSources == 2

\* the modulation source types an intent names
ModulationTypes == {"lfo", "random"}

\* ModulationSource lists of up to n sources; a source's id is its position
SourceLists(n) ==
  UNION {{[i \in 1..k |-> [id |-> i, type |-> ts[i]]] :
            ts \in [1..k -> ModulationTypes]} : k \in 0..n}

\* ArticulationIntent lists: the first k of sustain, staccato, legato, ...
ArticulationLists(n) ==
  {[i \in 1..k |-> [id |-> i, type |-> "sustain"]] : k \in 0..n}

\* MappingIntent: zones is optional
MappingIntents ==
  {[strategy |-> "chromatic"],
   [strategy |-> "chromatic", zones |-> <<>>],
   [strategy |-> "keySplit", zones |-> << [sampleSetIds |-> <<"c4">>] >>]}

\* InstrumentIntent values as a caller can hand them over: intent and
\* inventoryReferences may be missing (the checks of validateSchema exist for
\* that), modulation is optional
InstrumentIntents ==
  LET Core == {[articulations |-> a, mapping |-> m] :
                 a \in ArticulationLists(MaxIntentArticulations),
                 m \in MappingIntents}
      WithIntent == Core \cup {[intent |-> [name |-> "piano"]] @@ c : c \in Core}
      WithRefs == WithIntent
                    \cup {[inventoryReferences |-> r] @@ c :
                            c \in WithIntent,
                            r \in {<<>>, << [id |-> "c4", role |-> "primary"] >>}}
  IN WithRefs
       \cup {[modulation |-> [sources |-> s, targets |-> <<>>]] @@ c :
               c \in WithRefs, s \in SourceLists(MaxModulationSources)}

\* EngineCapabilities: every limit is optional
EngineCapabilityValues ==
  LET Core == {[maxSamples |-> 64]}
      WithArticulations == Core \cup {[maxArticulations |-> n] @@ c :
                                        c \in Core, n \in {0, 1}}
      WithTypes == WithArticulations
                     \cup {[supportedModulationTypes |-> {"lfo"}] @@ c :
                             c \in WithArticulations}
  IN WithTypes \cup {[maxModulationNodes |-> 1] @@ c : c \in WithTypes}

\* ValidationOptions: engineCapabilities is optional
ValidationOptionValues ==
  LET Flags == [strict : BOOLEAN, repair : BOOLEAN]
  IN Flags \cup {[engineCapabilities |-> c] @@ f :
                   f \in Flags, c \in EngineCapabilityValues}

\* the variant of validateSchema that accepts an empty inventoryReferences
validateSchemaRefsOptional(i) ==
  IF "intent" \notin DOMAIN i
    THEN << [path |-> <<"intent">>, code |-> "MISSING_INTENT"] >>
    ELSE <<>>

\* validateSchema: the errors it pushes
validateSchema(i) ==
  (IF "intent" \notin DOMAIN i
     THEN << [path |-> <<"intent">>, code |-> "MISSING_INTENT"] >>
     ELSE <<>>)
  \o (IF "inventoryReferences" \notin DOMAIN i \/ Len(i.inventoryReferences) = 0
        THEN << [path |-> <<"inventoryReferences">>, code |-> "NO_INVENTORY_REFERENCES"] >>
        ELSE <<>>)

\* sources.filter(s => types.includes(s.type)), or its complement
SourcesOfType(sources, types, included) ==
  SelectSeq(sources, LAMBDA s : (s.type \in types) = included)

\* validateCapabilities: the warnings it pushes
validateCapabilities(i, capabilities) ==
  (IF /\ "maxArticulations" \in DOMAIN capabilities
      /\ capabilities.maxArticulations # 0
      /\ Len(i.articulations) > capabilities.maxArticulations
     THEN << [path |-> <<"articulations">>, code |-> "EXCEEDS_MAX_ARTICULATIONS"] >>
     ELSE <<>>)
  \o (IF "supportedModulationTypes" \in DOMAIN capabilities /\ "modulation" \in DOMAIN i
        THEN LET bad == SourcesOfType(i.modulation.sources,
                                      capabilities.supportedModulationTypes, FALSE)
             IN [k \in 1..Len(bad) |->
                   [path |-> <<"modulation.sources", bad[k].id>>,
                    code |-> "UNSUPPORTED_MODULATION_TYPE"]]
        ELSE <<>>)

\* attemptRepair of packages/msf-validator: a copy of the intent
attemptRepair(i, capabilities) == i

\* attemptRepair of the validator module with the degradation pass;
\* capabilities is a list of zero or one EngineCapabilities
attemptRepairDegrade(i, capabilities) ==
  LET has(f) == capabilities # <<>> /\ f \in DOMAIN capabilities[1]
      caps == capabilities[1]
      filtered ==
        IF has("supportedModulationTypes") /\ "modulation" \in DOMAIN i
          THEN [i EXCEPT !.modulation.sources =
                           SourcesOfType(@, caps.supportedModulationTypes, TRUE)]
          ELSE i
      limited ==
        IF /\ has("maxArticulations")
           /\ caps.maxArticulations # 0
           /\ Len(filtered.articulations) > caps.maxArticulations
          THEN [filtered EXCEPT !.articulations = SubSeq(@, 1, caps.maxArticulations)]
          ELSE filtered
      capped ==
        IF /\ has("maxModulationNodes")
           /\ caps.maxModulationNodes # 0
           /\ "modulation" \in DOMAIN limited
           /\ Len(limited.modulation.sources) > caps.maxModulationNodes
          THEN [limited EXCEPT !.modulation.sources = SubSeq(@, 1, caps.maxModulationNodes)]
          ELSE limited
  IN IF "zones" \notin DOMAIN capped.mapping \/ Len(capped.mapping.zones) = 0
       THEN [capped EXCEPT !.mapping = [zones |-> <<>>] @@ @]
       ELSE capped

\* the two validator modules of the repository
Validators == {"msf-validator", "validator"}

\* validateIntent(intent, options) of the given validator module; repaired is
\* a list of zero or one intents
validateIntent(i, o, validator) ==
  LET errors == validateSchema(i)
      capabilities == IF "engineCapabilities" \in DOMAIN o
                        THEN << o.engineCapabilities >> ELSE <<>>
      warnings == IF capabilities # <<>>
                    THEN validateCapabilities(i, capabilities[1]) ELSE <<>>
      repaired == IF o.repair /\ Len(errors) = 0
                    THEN IF validator = "msf-validator"
                           THEN << attemptRepair(i, capabilities) >>
                           ELSE << attemptRepairDegrade(i, capabilities) >>
                    ELSE <<>>
  IN [valid |-> Len(errors) = 0 /\ (~o.strict \/ Len(warnings) = 0),
      errors |-> errors,
      warnings |-> warnings,
      repaired |-> repaired]

InitIntent ==
  /\ IdleKeyRanges
  /\ IdleCompile
  /\ IdleRuntime
  /\ IdleLoad
  /\ IdleAsync
  /\ IdleWav
  /\ IdleCli
  /\ IdleServer
  /\ phase = "intent"
  /\ iis \in InstrumentIntents
  /\ options \in ValidationOptionValues
  /\ intentResult = <<>>

\* a call of validateIntent
ValidateIntent(validator) ==
  /\ phase = "intent"
  /\ phase' = "checked"
  /\ intentResult' = validateIntent(iis, options, validator)
  /\ UNCHANGED <<iis, options>>
  /\ UNCHANGED <<krVars, compileVars, rtVars, loadVars, asyncVars, wavVars, cliVars, serverVars>>

NextIntent == \E validator \in Validators : ValidateIntent(validator)

SpecIntent == InitIntent /\ [][NextIntent]_vars

\* the structural defects of the intent handed to validateIntent
DescriptionMissing == "intent" \notin DOMAIN iis

ReferencesMissingOrEmpty ==
  "inventoryReferences" \notin DOMAIN iis \/ iis.inventoryReferences = <<>>

StructuralError == DescriptionMissing \/ ReferencesMissingOrEmpty

\* C22: validateIntent answers valid = false whenever the intent description
\* is missing or inventoryReferences is missing or empty, whatever the options;
\* without a structural error it answers valid = false exactly when strict is
\* set and a capability warning was produced
C22_StructuralErrorsAndStrictWarnings ==
  phase = "checked" =>
    /\ StructuralError => ~intentResult.valid
    /\ ~StructuralError => (~intentResult.valid <=> (options.strict /\ intentResult.warnings # <<>>))

\* a strict validation of a structurally sound intent that failed on a warning
C22_Witness ==
  /\ phase = "checked"
  /\ ~StructuralError
  /\ options.strict
  /\ intentResult.warnings # <<>>
  /\ ~intentResult.valid

\* the engine capabilities handed to validateIntent, where there are some
Capabilities == options.engineCapabilities

\* the warnings validateIntent returned that are filed under a path
WarningsAt(path) == {w \in Range(intentResult.warnings) : w.path = path}

ArticulationsExceeded ==
  /\ "maxArticulations" \in DOMAIN Capabilities
  /\ Len(iis.articulations) > Capabilities.maxArticulations

UnsupportedSources ==
  IF "supportedModulationTypes" \in DOMAIN Capabilities /\ "modulation" \in DOMAIN iis
    THEN {s \in Range(iis.modulation.sources) :
            s.type \notin Capabilities.supportedModulationTypes}
    ELSE {}

ModulationNodesExceeded ==
  /\ "maxModulationNodes" \in DOMAIN Capabilities
  /\ "modulation" \in DOMAIN iis
  /\ Len(iis.modulation.sources) > Capabilities.maxModulationNodes

\* C23: with engineCapabilities supplied, validateIntent warns about each
\* violated capability: more articulations than maxArticulations, every
\* modulation source of an unsupported type, and more modulation sources than
\* maxModulationNodes
C23_EachViolationWarned ==
  (phase = "checked" /\ "engineCapabilities" \in DOMAIN options) =>
    /\ ArticulationsExceeded => WarningsAt(<<"articulations">>) # {}
    /\ \A s \in UnsupportedSources : WarningsAt(<<"modulation.sources", s.id>>) # {}
    /\ ModulationNodesExceeded =>
         \E w \in Range(intentResult.warnings) :
           w.code \notin {"EXCEEDS_MAX_ARTICULATIONS", "UNSUPPORTED_MODULATION_TYPE"}

\* C23, the part that holds: a positive maxArticulations that is exceeded and
\* every source of an unsupported type are warned about
C23_ArticulationsAndTypesWarned ==
  (phase = "checked" /\ "engineCapabilities" \in DOMAIN options) =>
    /\ (ArticulationsExceeded /\ Capabilities.maxArticulations > 0)
         => WarningsAt(<<"articulations">>) # {}
    /\ \A s \in UnsupportedSources : WarningsAt(<<"modulation.sources", s.id>>) # {}

\* C23: two supported sources against maxModulationNodes = 1 pass unwarned
C23_NodeCeilingUnwarned ==
  /\ phase = "checked"
  /\ "engineCapabilities" \in DOMAIN options
  /\ ModulationNodesExceeded
  /\ UnsupportedSources = {}
  /\ ~ArticulationsExceeded
  /\ intentResult.warnings = <<>>

\* the intent validateIntent returned as repaired
Repaired == intentResult.repaired[1]

\* s is a subsequence of the sources of the input (a source's id is its
\* position in the input)
SubsequenceOfInput(s) ==
  /\ \A k \in 1..Len(s) :
       s[k].id \in 1..Len(iis.modulation.sources) /\ s[k] = iis.modulation.sources[s[k].id]
  /\ \A j, k \in 1..Len(s) : j < k => s[j].id < s[k].id

\* C24: with repair enabled and no structural error, validateIntent returns a
\* repaired intent whose articulations are a prefix of the input's no longer
\* than maxArticulations, whose modulation sources are a subsequence of the
\* input's holding only supported types and at most maxModulationNodes
\* entries, and which has no element or field the input did not have
C24_RepairOnlyRemoves ==
  (phase = "checked" /\ options.repair /\ ~StructuralError) =>
    /\ intentResult.repaired # <<>>
    /\ Len(Repaired.articulations) <= Len(iis.articulations)
    /\ Repaired.articulations = SubSeq(iis.articulations, 1, Len(Repaired.articulations))
    /\ DOMAIN Repaired \subseteq DOMAIN iis
    /\ DOMAIN Repaired.mapping \subseteq DOMAIN iis.mapping
    /\ "modulation" \in DOMAIN Repaired => SubsequenceOfInput(Repaired.modulation.sources)
    /\ "engineCapabilities" \in DOMAIN options =>
         /\ "maxArticulations" \in DOMAIN Capabilities
              => Len(Repaired.articulations) <= Capabilities.maxArticulations
         /\ ("supportedModulationTypes" \in DOMAIN Capabilities /\ "modulation" \in DOMAIN Repaired)
              => \A s \in Range(Repaired.modulation.sources) :
                   s.type \in Capabilities.supportedModulationTypes
         /\ ("maxModulationNodes" \in DOMAIN Capabilities /\ "modulation" \in DOMAIN Repaired)
              => Len(Repaired.modulation.sources) <= Capabilities.maxModulationNodes

\* C24, the part that holds in both validator modules: the repaired
\* articulations are a prefix of the input's and the repaired sources a
\* subsequence of the input's
C24_RepairKeepsOrder ==
  (phase = "checked" /\ options.repair /\ ~StructuralError) =>
    /\ intentResult.repaired # <<>>
    /\ Len(Repaired.articulations) <= Len(iis.articulations)
    /\ Repaired.articulations = SubSeq(iis.articulations, 1, Len(Repaired.articulations))
    /\ "modulation" \in DOMAIN Repaired => SubsequenceOfInput(Repaired.modulation.sources)

\* C24: the repair of packages/msf-validator leaves too many articulations
C24_RepairLeavesExcess ==
  /\ phase = "checked" /\ options.repair /\ ~StructuralError
  /\ "engineCapabilities" \in DOMAIN options
  /\ "maxArticulations" \in DOMAIN Capabilities
  /\ Capabilities.maxArticulations = 1
  /\ Len(Repaired.articulations) > 1

\* C24: the degrading repair adds mapping.zones to an intent that had none
C24_RepairAddsZones ==
  /\ phase = "checked" /\ options.repair /\ ~StructuralError
  /\ "zones" \notin DOMAIN iis.mapping
  /\ "zones" \in DOMAIN Repaired.mapping

----------------------------------------------------------------------------
(* Scenario 10: the msf command line (main, runCompile) and compileMSF *)

\* the most options on a command line
MaxOptions == 2

\* the words a command line can name a file by
FileWords ==
  {"in.msf.json", "out.msf.json", "--output", "--preserve-original", "--strict",
   "--samples-base", "--verbose"}

\* resolve(name), a path, and `${path}.original`
resolve(name) == <<name>>

Original(path) == Append(path, ".original")

\* the paths of the working directory
Paths == {resolve(w) : w \in FileWords} \cup {Original(resolve(w)) : w \in FileWords}

\* the content of a path: no file, text that is not JSON, or the JSON text of
\* a bundle
NoFile == [kind |-> "absent", msf |-> <<>>]

NotJSON == [kind |-> "text", msf |-> <<>>]

\* JSON.stringify(msf, null, 2) and JSON.parse of such a text; a field whose
\* value is undefined is left out of the text and reads as undefined again
stringify(msf) == [kind |-> "json", msf |-> <<msf>>]

parse(text) == text.msf[1]

\* the bundle of the compileMSF tests: no articulations, no sample sets
TestInstrument ==
  [identity |-> [id |-> <<"test-instrument-5">>, name |-> "Test Instrument 5"],
   articulations |-> <<>>,
   sampleSets |-> <<>>,
   regions |-> <<>>,
   keyZones |-> <<>>,
   compiledAt |-> 999]

\* the bundles found in the input file: the test bundle, and bundles the
\* compiler wrote for an intent of one articulation of one sample
SourceBundles ==
  {TestInstrument}
    \cup {compile(i, Catalogue, 42, 1000) :
            i \in {j \in Intents : /\ Len(j.articulations) = 1
                                   /\ Len(j.articulations[1].samples) = 1}}

\* the option words of a command line, by the option they belong to
OptionWords ==
  {<<"--output", "out.msf.json">>, <<"--output", "in.msf.json">>, <<"--output">>,
   <<"--preserve-original">>, <<"--strict">>, <<"--samples-base", "/samples">>,
   <<"--verbose">>}

\* the command lines: process.argv.slice(2)
CommandLines ==
  LET Cat(ws) ==
        LET F[k \in 0..Len(ws)] == IF k = 0 THEN <<>> ELSE F[k - 1] \o ws[k]
        IN F[Len(ws)]
      Options == {Cat(ws) : ws \in UNION {[1..k -> OptionWords] : k \in 0..MaxOptions}}
  IN {<<>>, <<"--help">>, <<"-h">>, <<"build">>, <<"build", "in.msf.json">>,
      <<"compile">>, <<"compile", "">>}
       \cup {<<"compile", "in.msf.json">> \o o : o \in Options}

\* CompileOptions: output and samplesBasePath are lists of zero or one path
OptionsFor(input) ==
  [input |-> input, output |-> <<>>, preserveOriginal |-> FALSE, strict |-> FALSE,
   samplesBasePath |-> <<>>]

\* the option loop of main that takes every word it does not know for a flag
RECURSIVE parseOptionsLenient(_, _, _)
parseOptionsLenient(args, i, o) ==
  IF i > Len(args) THEN [ok |-> TRUE, options |-> o]
  ELSE IF args[i] = "--output" /\ i + 1 <= Len(args) /\ args[i + 1] # ""
    THEN parseOptionsLenient(args, i + 2, [o EXCEPT !.output = <<args[i + 1]>>])
  ELSE IF args[i] = "--preserve-original"
    THEN parseOptionsLenient(args, i + 1, [o EXCEPT !.preserveOriginal = TRUE])
  ELSE IF args[i] = "--strict"
    THEN parseOptionsLenient(args, i + 1, [o EXCEPT !.strict = TRUE])
  ELSE IF args[i] = "--samples-base" /\ i + 1 <= Len(args) /\ args[i + 1] # ""
    THEN parseOptionsLenient(args, i + 2, [o EXCEPT !.samplesBasePath = <<args[i + 1]>>])
  ELSE parseOptionsLenient(args, i + 1, o)

\* the option loop of main from args[i] on: ok is FALSE where it reports an
\* unknown option and exits
RECURSIVE parseOptions(_, _, _)
parseOptions(args, i, o) ==
  IF i > Len(args) THEN [ok |-> TRUE, options |-> o]
  ELSE IF args[i] = "--output" /\ i + 1 <= Len(args) /\ args[i + 1] # ""
    THEN parseOptions(args, i + 2, [o EXCEPT !.output = <<args[i + 1]>>])
  ELSE IF args[i] = "--preserve-original"
    THEN parseOptions(args, i + 1, [o EXCEPT !.preserveOriginal = TRUE])
  ELSE IF args[i] = "--strict"
    THEN parseOptions(args, i + 1, [o EXCEPT !.strict = TRUE])
  ELSE IF args[i] = "--samples-base" /\ i + 1 <= Len(args) /\ args[i + 1] # ""
    THEN parseOptions(args, i + 2, [o EXCEPT !.samplesBasePath = <<args[i + 1]>>])
  ELSE [ok |-> FALSE, options |-> o]

\* compileMSF(options) over the files fs when Date.now() is now: the error it
\* throws ("" for none), the files it leaves and the warnings of the build
\* report. The duration probe of the samples (under samplesBasePath) changes
\* no field of the model and catches its own errors.
compileMSF(o, fs, now) ==
  LET inputPath == resolve(o.input)
      source == fs[inputPath]
      outputPath == IF o.output # <<>> THEN resolve(o.output[1]) ELSE inputPath
      errors == <<>>
      \* from the compiled bundle on
      thenWrite(compiledMSF) ==
        LET out == [fs EXCEPT ![outputPath] = stringify(compiledMSF)]
        IN IF Len(errors) > 0
             THEN [thrown |-> "Compilation failed", files |-> fs,
                   warnings |-> compiledMSF.warnings]
             ELSE [thrown |-> "",
                   files |-> IF o.preserveOriginal
                               THEN [out EXCEPT ![Original(outputPath)] = out[inputPath]]
                               ELSE out,
                   warnings |-> compiledMSF.warnings]
  IN IF source.kind = "absent"
       THEN [thrown |-> "ENOENT", files |-> fs, warnings |-> <<>>]
     ELSE IF source.kind = "text"
       THEN [thrown |-> "SyntaxError", files |-> fs, warnings |-> <<>>]
     ELSE
       CHOOSE r \in {thenWrite(c) :
                       c \in {compile(extractIntentFromMSF(parse(source)),
                                      extractInventoryFromMSF(parse(source)),
                                      Undefined, now)}} : TRUE

\* runCompile(options): the exit code of the process it ends or lets end
runCompile(o, fs, now) ==
  LET r == compileMSF(o, fs, now)
  IN [code |-> IF r.thrown = "" THEN 0 ELSE 1,
      files |-> r.files,
      warnings |-> r.warnings]

\* main() on the command line args
main(args, fs, now) ==
  LET ended(code, usage) ==
        [code |-> code, usage |-> usage, invoked |-> FALSE, files |-> fs,
         options |-> <<>>, warnings |-> <<>>]
  IN IF Len(args) = 0 \/ args[1] = "--help" \/ args[1] = "-h" THEN ended(0, TRUE)
     ELSE IF args[1] # "compile" THEN ended(1, FALSE)
     ELSE IF Len(args) < 2 \/ args[2] = "" THEN ended(1, FALSE)
     ELSE LET p == parseOptions(args, 3, OptionsFor(args[2]))
          IN IF ~p.ok THEN ended(1, FALSE)
             ELSE LET o == IF p.options.samplesBasePath = <<>>
                             THEN [p.options EXCEPT !.samplesBasePath = <<".">>]
                             ELSE p.options
                      r == runCompile(o, fs, now)
                  IN [code |-> r.code, usage |-> FALSE, invoked |-> TRUE,
                      files |-> r.files, options |-> <<o>>, warnings |-> r.warnings]

InitCli ==
  /\ IdleKeyRanges
  /\ IdleCompile
  /\ IdleRuntime
  /\ IdleLoad
  /\ IdleAsync
  /\ IdleWav
  /\ IdleIntent
  /\ IdleServer
  /\ phase = "shell"
  /\ argv \in CommandLines
  /\ \E content \in {NoFile, NotJSON} \cup {stringify(b) : b \in SourceBundles} :
       files = [p \in Paths |-> IF p = resolve("in.msf.json") THEN content ELSE NoFile]
  /\ exit = <<>>

\* one run of the msf command; exit keeps the files it started from
Msf(now) ==
  /\ phase = "shell"
  /\ \E r \in {main(argv, files, now)} :
        /\ exit' = << [code |-> r.code, usage |-> r.usage, invoked |-> r.invoked,
                       options |-> r.options, warnings |-> r.warnings,
                       before |-> files] >>
        /\ files' = r.files
  /\ phase' = "exited"
  /\ UNCHANGED argv
  /\ UNCHANGED <<krVars, compileVars, rtVars, loadVars, asyncVars, wavVars, intentVars, serverVars>>

NextCli == \E now \in {2000} : Msf(now)

SpecCli == InitCli /\ [][NextCli]_vars

\* the run of the msf command that ended, and what it was asked for
Run == exit[1]

Exited == phase = "exited"

Compiling == Exited /\ Run.invoked

InputPath == resolve(Run.options[1].input)

OutputPath ==
  IF Run.options[1].output # <<>> THEN resolve(Run.options[1].output[1]) ELSE InputPath

\* C25: after compileMSF completes with preserveOriginal set, <output>.original
\* holds exactly the content the input file had before the call, <output>
\* being the input path by default; also when the bundle is written over the
\* input file
C25_OriginalPreserved ==
  (Compiling /\ Run.code = 0 /\ Run.options[1].preserveOriginal) =>
    files[Original(OutputPath)] = Run.before[InputPath]

\* C25, the part that holds: beside an output file other than the input file,
\* <output>.original holds the content the input file had
C25_PreservedBesideSeparateOutput ==
  (Compiling /\ Run.code = 0 /\ Run.options[1].preserveOriginal /\ OutputPath # InputPath) =>
    files[Original(OutputPath)] = Run.before[InputPath]

\* C25: compiled in place, <input>.original is a copy of the compiled bundle
C25_OriginalHoldsCompiledBundle ==
  /\ Compiling /\ Run.code = 0 /\ Run.options[1].preserveOriginal
  /\ Run.options[1].output = <<>>
  /\ files[Original(InputPath)] = files[InputPath]
  /\ files[Original(InputPath)] # Run.before[InputPath]

\* C26: with strict set, compileMSF fails (the command exits with code 1) and
\* writes no file whenever the build report holds a warning; without strict,
\* warnings never keep the output from being written
C26_StrictFailsOnWarnings ==
  Compiling =>
    /\ (Run.options[1].strict /\ Run.warnings # <<>>)
         => (Run.code = 1 /\ files = Run.before)
    /\ (~Run.options[1].strict /\ Run.before[InputPath].kind = "json")
         => (Run.code = 0 /\ files[OutputPath].kind = "json"
               /\ files[OutputPath] # Run.before[OutputPath])

\* C26, the part that holds: without strict, a readable bundle is compiled and
\* written whatever the warnings
C26_WarningsNeverPreventOutput ==
  (Compiling /\ ~Run.options[1].strict /\ Run.before[InputPath].kind = "json") =>
    (Run.code = 0 /\ files[OutputPath].kind = "json"
       /\ files[OutputPath] # Run.before[OutputPath])

\* C26: a strict compilation with warnings that wrote its output and exited 0
C26_StrictWritesDespiteWarnings ==
  /\ Compiling
  /\ Run.options[1].strict
  /\ Run.warnings # <<>>
  /\ Run.code = 0
  /\ files[OutputPath] # Run.before[OutputPath]

\* the options of a command line, from word i on, are all known and complete
RECURSIVE KnownOptions(_, _)
KnownOptions(args, i) ==
  \/ i > Len(args)
  \/ /\ args[i] \in {"--preserve-original", "--strict"}
     /\ KnownOptions(args, i + 1)
  \/ /\ args[i] \in {"--output", "--samples-base"}
     /\ i + 1 <= Len(args)
     /\ KnownOptions(args, i + 2)

UsageAsked == argv = <<>> \/ argv[1] \in {"--help", "-h"}

UnknownCommand == ~UsageAsked /\ argv[1] # "compile"

MissingInput == ~UsageAsked /\ argv[1] = "compile" /\ (Len(argv) < 2 \/ argv[2] = "")

UnknownOption ==
  ~UsageAsked /\ ~UnknownCommand /\ ~MissingInput /\ ~KnownOptions(argv, 3)

\* the command ended before compileMSF was invoked and before any file was
\* written
EndedEarly == ~Run.invoked /\ files = Run.before

----------------------------------------------------------------------------
(* Scenario 11: render calls of any length on releasing voices *)

\* the largest frameCount of a render call (renderToWAVBuffer renders in
\* chunks longer than a release)
MaxRenderFrames == 4

\* the noteOn calls of the scenario: a root and an octave below a root
ReleaseNotes == {<<60, 50>>, <<60, 100>>, <<48, 100>>}

InitRelease ==
  /\ IdleKeyRanges
  /\ IdleIntent
  /\ IdleCli
  /\ IdleServer
  /\ IdleLoad
  /\ IdleAsync
  /\ IdleWav
  /\ phase = "release"
  /\ intent = RuntimeIntent
  /\ inventory = Catalogue
  /\ seedOpt = 42
  /\ clock = 1001
  /\ bundle = compile(RuntimeIntent, Catalogue, 42, 1000)
  /\ bundle2 = <<>>
  /\ bundleR = <<>>
  /\ lastNoteOn = <<>>
  /\ script = <<>>
  /\ done = [r \in {1} |-> 0]
  /\ voices = [r \in {1} |-> <<>>]
  /\ audioCache = [r \in {1} |-> {}]
  /\ hist = [r \in {1} |-> <<>>]

\* the runtime has made one more call: its voices and cache, and the call
\* with the buffer it returned as the last one made
ReleaseCalled(op, arg, vs, cache, out) ==
  /\ phase = "release"
  /\ done[1] < MaxEvents
  /\ done' = [done EXCEPT ![1] = @ + 1]
  /\ voices' = [voices EXCEPT ![1] = vs]
  /\ audioCache' = [audioCache EXCEPT ![1] = cache]
  /\ hist' = [hist EXCEPT ![1] = << [op |-> op, arg |-> arg, output |-> out] >>]
  /\ UNCHANGED <<phase, script>>
  /\ UNCHANGED <<krVars, compileVars, loadVars, asyncVars, wavVars, intentVars, cliVars, serverVars>>

\* await runtime.noteOn(note, velocity)
ReleaseNoteOn(note, velocity) ==
  ReleaseCalled("noteOn", note,
                noteOnVoices(bundle, VoicesOf(1), CacheOf(1), note, velocity),
                noteOnCache(bundle, CacheOf(1), note, velocity), <<>>)

\* runtime.noteOff(note)
ReleaseNoteOff(note) ==
  ReleaseCalled("noteOff", note, noteOffVoices(VoicesOf(1), note), CacheOf(1), <<>>)

\* runtime.render(frameCount)
ReleaseRender(frameCount) ==
  ReleaseCalled("render", frameCount, renderVoices(VoicesOf(1), frameCount), CacheOf(1),
                renderOutput(VoicesOf(1), frameCount))

NextRelease ==
  \/ \E nv \in ReleaseNotes : ReleaseNoteOn(nv[1], nv[2])
  \/ \E nv \in ReleaseNotes : ReleaseNoteOff(nv[1])
  \/ \E frameCount \in 1..MaxRenderFrames : ReleaseRender(frameCount)

SpecRelease == InitRelease /\ [][NextRelease]_vars

\* what the releasing voices added to the buffer of the render call just made
ReleasingContributions ==
  IF phase = "release" /\ hist[1] # <<>> /\ hist[1][1].op = "render"
    THEN {c \in UNION {Range(hist[1][1].output[f]) : f \in 1..Len(hist[1][1].output)} :
            c.releasePosition # Undefined}
    ELSE {}

\* C28: on every frame render mixes for a releasing voice, the release phase
\* releasePosition / releaseFrames lies in [0, 1], whatever the frameCount
\* (one render call longer than the remaining release included)
C28_ReleasePhaseWithinUnit ==
  \A c \in ReleasingContributions :
    c.releaseFrames > 0 /\ 0 <= c.releasePosition /\ c.releasePosition <= c.releaseFrames

\* C28, the part that holds: rendered one frame at a time, the release phase
\* stays below 1
C28_FrameByFrameWithinUnit ==
  (hist[1] # <<>> /\ hist[1][1].arg = 1) =>
    \A c \in ReleasingContributions :
      c.releaseFrames > 0 /\ 0 <= c.releasePosition /\ c.releasePosition < c.releaseFrames

\* C28: a frame mixed with releasePosition beyond releaseFrames
C28_ReleaseOvershoots ==
  \E c \in ReleasingContributions : c.releaseFrames > 0 /\ c.releasePosition > c.releaseFrames

----------------------------------------------------------------------------
(* The runtime: the note-lookup table against the legacy linear scan *)

\* lookupRegion(note, velocity) with a noteLookup: this.instrument.regions[
\* match.regionIndex] ?? null, as a list of zero or one regions
lookupRegion(msf, note, velocity) ==
  LET layer == lookupLayer(msf, note, velocity)
  IN IF layer = NoLayer \/ layer.regionIndex + 1 \notin 1..Len(msf.regions) THEN <<>>
     ELSE << msf.regions[layer.regionIndex + 1] >>

\* legacyRegionSearch(note, velocity) and selectRegionForNote(regions, note,
\* velocity): the candidates in the order of the regions, sorted (stably) by
\* |note - pitchKeyCenter|, and the first of them; a list of zero or one regions
legacyRegionSearch(msf, note, velocity) ==
  LET candidates ==
        SelectSeq(msf.regions,
                  LAMBDA r : /\ note >= r.loKey
                             /\ note <= r.hiKey
                             /\ (r.loVel = Undefined \/ velocity >= r.loVel)
                             /\ (r.hiVel = Undefined \/ velocity <= r.hiVel))
      distance(k) == Abs(note - candidates[k].pitchKeyCenter)
  IN IF candidates = <<>> THEN <<>>
     ELSE << candidates[CHOOSE k \in 1..Len(candidates) :
                          \A j \in 1..Len(candidates) :
                            \/ distance(k) < distance(j)
                            \/ distance(k) = distance(j) /\ k <= j] >>

\* the velocities at which either search can change its answer: the ends of
\* 1..127 and both sides of every region's velocity bounds
VelocityBreakpoints(msf) ==
  ({1, 127} \cup UNION {{msf.regions[i].loVel - 1, msf.regions[i].loVel,
                         msf.regions[i].hiVel, msf.regions[i].hiVel + 1} :
                          i \in 1..Len(msf.regions)})
    \cap 1..127

\* C29: for every bundle compile produces, every note 0..127 and velocity
\* 1..127, the region found through the note-lookup table is the region the
\* legacy linear scan finds, and either finds none exactly when the other does
C29_LookupMatchesLegacySearch ==
  phase = "compiled" =>
    \A note \in 0..127 : \A velocity \in VelocityBreakpoints(bundle) :
      lookupRegion(bundle, note, velocity) = legacyRegionSearch(bundle, note, velocity)

\* C29, the part that holds: for a bundle of one articulation whose samples
\* differ in note or velocity, both searches find the same region or none
C29_OneArticulationDistinctLayersAgree ==
  (phase = "compiled" /\ Len(bundle.articulations) = 1
     /\ DistinctLayers(bundle.articulations[1].id)) =>
    \A note \in 0..127 : \A velocity \in VelocityBreakpoints(bundle) :
      lookupRegion(bundle, note, velocity) = legacyRegionSearch(bundle, note, velocity)

\* C29: the table answers with a region where the legacy scan finds none
C29_TableFindsWhereScanFindsNone ==
  /\ phase = "compiled"
  /\ \E note \in 0..127 : \E velocity \in VelocityBreakpoints(bundle) :
       /\ lookupRegion(bundle, note, velocity) # <<>>
       /\ legacyRegionSearch(bundle, note, velocity) = <<>>

\* C29: both find a region, and not the same one
C29_TableAndScanDisagree ==
  /\ phase = "compiled"
  /\ \E note \in 0..127 : \E velocity \in VelocityBreakpoints(bundle) :
       /\ lookupRegion(bundle, note, velocity) # <<>>
       /\ legacyRegionSearch(bundle, note, velocity) # <<>>
       /\ lookupRegion(bundle, note, velocity) # legacyRegionSearch(bundle, note, velocity)

----------------------------------------------------------------------------
(* Scenario 12: the instrument versions of the refinement server *)

\* the most versions ever inserted, and the most recompile requests awaiting
\* compile at a time
MaxVersions == 4

MaxInflight == 2

\* SELECT COUNT(*) FROM instrument_versions
CountVersions(rows) == Len(rows)

\* SELECT ... WHERE id = ? has a row
HasVersion(rows, id) == \E i \in 1..Len(rows) : rows[i].id = id

\* SELECT is_active ... WHERE id = ?
IsActive(rows, id) == \E i \in 1..Len(rows) : rows[i].id = id /\ rows[i].is_active = 1

\* the statement of handleLoadVersion and handleRecompile that deactivates
\* nothing
ClearActiveNone(rows) == rows

\* UPDATE instrument_versions SET is_active = 0
ClearActive(rows) == [i \in 1..Len(rows) |-> [rows[i] EXCEPT !.is_active = 0]]

\* UPDATE instrument_versions SET is_active = 1 WHERE id = ?
SetActive(rows, id) ==
  [i \in 1..Len(rows) |-> IF rows[i].id = id THEN [rows[i] EXCEPT !.is_active = 1] ELSE rows[i]]

\* INSERT INTO instrument_versions (..., is_active) VALUES (..., 1), the id
\* being the next AUTOINCREMENT value
InsertActive(rows, id) == Append(rows, [id |-> id, is_active |-> 1])

\* DELETE FROM instrument_versions WHERE id = ?
DeleteVersion(rows, id) == SelectSeq(rows, LAMBDA r : r.id # id)

InitServer ==
  /\ IdleKeyRanges
  /\ IdleCompile
  /\ IdleRuntime
  /\ IdleLoad
  /\ IdleAsync
  /\ IdleWav
  /\ IdleIntent
  /\ IdleCli
  /\ phase = "down"
  /\ db = <<>>
  /\ nextId = 1
  /\ inflight = 0
  /\ response = <<>>

\* the server has answered a request
Respond(op, id, status) == response' = << [op |-> op, id |-> id, status |-> status] >>

\* the module is loaded: the table is created if it is missing and seeded
\* with the active base version if it is empty, then the server listens
Startup ==
  /\ phase = "down"
  /\ phase' = "serving"
  /\ IF CountVersions(db) = 0
       THEN db' = InsertActive(db, nextId) /\ nextId' = nextId + 1
       ELSE UNCHANGED <<db, nextId>>
  /\ response' = <<>>
  /\ UNCHANGED inflight
  /\ UNCHANGED <<krVars, compileVars, rtVars, loadVars, asyncVars, wavVars, intentVars, cliVars>>

\* the process ends, the requests awaiting compile with it; the database file
\* stays
Shutdown ==
  /\ phase = "serving"
  /\ phase' = "down"
  /\ inflight' = 0
  /\ response' = <<>>
  /\ UNCHANGED <<db, nextId>>
  /\ UNCHANGED <<krVars, compileVars, rtVars, loadVars, asyncVars, wavVars, intentVars, cliVars>>

\* handleLoadVersion({ id }); runtimeOk is FALSE where JSON.parse or the
\* MSFRuntime constructor throws after the two updates
HandleLoadVersion(id, runtimeOk) ==
  /\ phase = "serving"
  /\ IF ~HasVersion(db, id)
       THEN /\ Respond("load", id, 404)
            /\ UNCHANGED db
       ELSE /\ db' = SetActive(ClearActive(db), id)
            /\ Respond("load", id, IF runtimeOk THEN 200 ELSE 500)
  /\ UNCHANGED <<phase, nextId, inflight>>
  /\ UNCHANGED <<krVars, compileVars, rtVars, loadVars, asyncVars, wavVars, intentVars, cliVars>>

\* handleDeleteVersion({ id })
HandleDeleteVersion(id) ==
  /\ phase = "serving"
  /\ IF ~HasVersion(db, id)
       THEN /\ Respond("delete", id, 404)
            /\ UNCHANGED db
     ELSE IF IsActive(db, id)
       THEN /\ Respond("delete", id, 400)
            /\ UNCHANGED db
     ELSE /\ db' = DeleteVersion(db, id)
          /\ Respond("delete", id, 200)
  /\ UNCHANGED <<phase, nextId, inflight>>
  /\ UNCHANGED <<krVars, compileVars, rtVars, loadVars, asyncVars, wavVars, intentVars, cliVars>>

\* handleRecompile(body) up to its await: 400 without controls, else compile
\* is under way
HandleRecompile(controls) ==
  /\ phase = "serving"
  /\ IF ~controls
       THEN /\ Respond("recompile", 0, 400)
            /\ UNCHANGED inflight
       ELSE /\ inflight < MaxInflight
            /\ inflight' = inflight + 1
            /\ UNCHANGED response
  /\ UNCHANGED <<phase, db, nextId>>
  /\ UNCHANGED <<krVars, compileVars, rtVars, loadVars, asyncVars, wavVars, intentVars, cliVars>>

\* handleRecompile from the point compile settles: nothing is stored where
\* compile rejects or the MSFRuntime constructor throws; else every version is
\* deactivated and the new one inserted as the active one
RecompileSettled(runtimeOk) ==
  /\ phase = "serving"
  /\ inflight > 0
  /\ inflight' = inflight - 1
  /\ IF ~runtimeOk
       THEN /\ Respond("recompile", 0, 500)
            /\ UNCHANGED <<db, nextId>>
       ELSE /\ nextId <= MaxVersions
            /\ db' = InsertActive(ClearActive(db), nextId)
            /\ nextId' = nextId + 1
            /\ Respond("recompile", nextId, 200)
  /\ UNCHANGED phase
  /\ UNCHANGED <<krVars, compileVars, rtVars, loadVars, asyncVars, wavVars, intentVars, cliVars>>

NextServer ==
  \/ Startup
  \/ Shutdown
  \/ \E id \in 1..(MaxVersions + 1) : \E runtimeOk \in BOOLEAN : HandleLoadVersion(id, runtimeOk)
  \/ \E id \in 1..(MaxVersions + 1) : HandleDeleteVersion(id)
  \/ \E controls \in BOOLEAN : HandleRecompile(controls)
  \/ \E runtimeOk \in BOOLEAN : RecompileSettled(runtimeOk)

SpecServer == InitServer /\ [][NextServer]_vars

\* the ids of the versions marked active
ActiveVersions == {db[i].id : i \in {k \in 1..Len(db) : db[k].is_active = 1}}

\* C30: after startup and after any sequence and interleaving of recompile,
\* load-version and delete-version requests, exactly one stored version is
\* marked active; a load or a recompile that changed the table leaves the
\* loaded or newly inserted version as the active one
C30_ExactlyOneActiveVersion ==
  phase = "serving" =>
    /\ Cardinality(ActiveVersions) = 1
    /\ (response # <<>> /\ response[1].op = "load" /\ response[1].status # 404)
         => ActiveVersions = {response[1].id}
    /\ (response # <<>> /\ response[1].op = "recompile" /\ response[1].status = 200)
         => (ActiveVersions = {response[1].id} /\ response[1].id = nextId - 1)

\* C30: a delete request leaves the active version where it is
C30_DeleteKeepsActive ==
  [][\A id \in 1..(MaxVersions + 1) :
       HandleDeleteVersion(id) => ActiveVersions' = ActiveVersions]_vars

\* an older version loaded again among several, after recompiles and a delete
C30_Witness ==
  /\ phase = "serving"
  /\ Len(db) >= 2
  /\ Len(db) < nextId - 1
  /\ response # <<>> /\ response[1].op = "load" /\ response[1].status = 200
  /\ ActiveVersions = {response[1].id}
  /\ response[1].id < db[Len(db)].id

====
